---- MODULE Spec2Model ----
(***************************************************************************)
(* A model of the spider repository: the response capture pipeline of      *)
(* internal/crawler (Spider.Crawl, Spider.handleResponse,                  *)
(* Spider.downloadResource, Spider.GetResources), the caller in            *)
(* cmd/spider (processResources) and the source map extractor of           *)
(* internal/sourcemap (Extractor.ExtractFromResource).                     *)
(*                                                                         *)
(* Spec      the capture pipeline: one Crawl, its handleResponse           *)
(*           goroutines, and the caller's GetResources and merge.          *)
(* FairSpec  Spec with every spawned goroutine scheduled fairly.           *)
(* SpecExtract  one run of ExtractFromResource on one resource.            *)
(***************************************************************************)
EXTENDS Integers, Sequences, FiniteSets, TLC

\* The number of response-received events the browser delivers in one crawl.
MaxEvents == 2

\* The URLs the page's responses come from.
URLs == {"u1", "u2"}

\* A URL a source map yields, merged by the caller into its own mapping.
SynthURLs == {"s1"}

\* []byte values.  A nil slice and an empty slice both have length 0, and
\* only the nil slice is nil.
NilBytes == [isNil |-> TRUE, bytes |-> ""]

Bytes(b) == [isNil |-> FALSE, bytes |-> b]

\* The goroutines handleResponse runs in, one per delivered event; the
\* event's request identifier is the goroutine's number.
Tasks == 1..MaxEvents

\* The identity of a synthesized Resource (captured Resources are numbered
\* by the task that allocated them).
SynthId == 0

\* The two map objects: s.resources, and the one GetResources makes.
StoreMap == 1

CopyMap == 2

NoMap == 0

VARIABLES
    crawlPc,     \* where Crawl is: start, navigate, scroll, sleep, returned, failed
    ctxDone,     \* whether the crawl context (WithTimeout) is done
    nEvents,     \* how many events the listener callback has been called with
    pc,          \* per task: idle, check, dropped, getbody, fallback, put, done
    evURL,       \* per task: ev.Response.URL
    heap,        \* the Resource objects allocated, by identity
    maps,        \* the map objects, by identity: URL -> Resource identity
    runRes,      \* per task: what chromedp.Run(GetResponseBody) gave: err, body
    body,        \* per task: the goroutine's local variable body
    fetchLog,    \* per task: the downloadResource calls made: <<url, outcome, result>>
    bodyCalls,   \* per URL: the GetResponseBody calls started for it
    callerPc,    \* where the caller is: crawling, process, merged, exit
    resources,   \* the caller's variable resources: the map GetResources gave
    snapKeys,    \* the key -> identity mapping GetResources returned, as returned
    exPc,        \* ExtractFromResource: where the run is
    exRes,       \* ExtractFromResource: the resource it is given
    exOut,       \* ExtractFromResource: what the run produced so far
    prPc,        \* processResources: off, extract, merge, saved
    snapshot,    \* processResources: the mapping GetResources returned, as returned
    prResources, \* processResources: its variable resources, URL -> Resource
    todo,        \* processResources: the keys its range loop has yet to visit
    calls,       \* processResources: per key, the ExtractFromResource calls made
    sourceMapResources, \* processResources: its map of source files
    returned,    \* processResources: per key visited, the files and err returned
    nTargets,    \* crawlMultipleURLs: len(urls)
    concurrency, \* crawlMultipleURLs: its parameter, the capacity of sem
    mainPc,      \* crawlMultipleURLs: off, add, acquire, wait, returned
    loopIdx,     \* crawlMultipleURLs: the targets its loop has gone through
    sem,         \* crawlMultipleURLs: the number of elements in the channel sem
    wg,          \* crawlMultipleURLs: the counter of the WaitGroup
    sessPc,      \* per target: where its goroutine is
    successCount, \* crawlMultipleURLs: the targets counted as done
    failCount,   \* crawlMultipleURLs: the targets counted as failed
    sessLog,     \* per target: how Crawl returned, the processResources
                 \* calls made for it, and the times it was counted
    mu           \* s.mu: the tasks that hold it (the caller is task 0)

captureVars ==
    <<crawlPc, ctxDone, nEvents, pc, evURL, heap, maps, runRes, body,
      fetchLog, bodyCalls, callerPc, resources, snapKeys, mu>>

extractVars == <<exPc, exRes, exOut>>

processVars ==
    <<prPc, snapshot, prResources, todo, calls, sourceMapResources, returned>>

multiVars ==
    <<nTargets, concurrency, mainPc, loopIdx, sem, wg, sessPc, successCount,
      failCount, sessLog>>

vars == <<captureVars, extractVars, processVars, multiVars>>

(***************************************************************************)
(* Values                                                                  *)
(***************************************************************************)

\* The zero Resource: what a heap cell holds before it is allocated.
NoResource ==
    [URL |-> "", StatusCode |-> 0, MimeType |-> "", Content |-> NilBytes,
     Headers |-> [k \in {} |-> ""]]

\* resp.MimeType of the responses a URL answers with.
MimeOf(u) == IF u = "u1" THEN "application/javascript" ELSE "image/png"

\* A map with no keys.
EmptyMap == [u \in {} |-> 0]

\* m[k] = v
MapPut(m, k, v) == [x \in (DOMAIN m) \cup {k} |-> IF x = k THEN v ELSE m[x]]

\* What network.GetResponseBody can answer with when it succeeds.
BrowserBodies == {"b1"}

\* What client.Get and io.ReadAll can do in downloadResource: the GET fails,
\* the read of the body fails, or a response of some status is read whole.
GetFails == [kind |-> "getErr", status |-> 0, body |-> ""]

ReadFails == [kind |-> "readErr", status |-> 200, body |-> ""]

Response(st, b) == [kind |-> "resp", status |-> st, body |-> b]

FetchOutcomes == {GetFails, ReadFails, Response(200, ""), Response(404, "b2")}

\* downloadResource as it would be with downloadSourceMap's status check: a
\* response that is not 200 OK counts as a failure.
downloadResourceStatusChecked(o) ==
    IF o.kind # "resp" \/ o.status # 200 THEN NilBytes ELSE Bytes(o.body)

\* downloadResource's return value, given what the transport did.
downloadResource(o) ==
    IF o.kind = "getErr" THEN NilBytes
    ELSE IF o.kind = "readErr" THEN NilBytes
    ELSE Bytes(o.body)

(***************************************************************************)
(* Spider.Crawl                                                            *)
(***************************************************************************)

\* The listener registered by ListenTarget is called while Crawl runs its
\* actions and sleeps, and only while its context is not done.
Listening == crawlPc \in {"navigate", "scroll", "sleep"} /\ ~ctxDone

\* chromedp.Run(ctx) starts the browser; on success the timeout context is
\* made and the listener registered.
StartBrowser ==
    /\ crawlPc = "start"
    /\ \/ crawlPc' = "navigate" /\ UNCHANGED ctxDone
       \/ crawlPc' = "failed" /\ ctxDone' = TRUE
    /\ UNCHANGED <<nEvents, pc, evURL, heap, maps, runRes, body, fetchLog,
                   bodyCalls, callerPc, resources, snapKeys, extractVars, processVars,
                   multiVars, mu>>

\* The deadline of context.WithTimeout(ctx, s.config.Timeout) passes.
DeadlineExpires ==
    /\ crawlPc \in {"navigate", "scroll", "sleep"}
    /\ ~ctxDone
    /\ ctxDone' = TRUE
    /\ UNCHANGED <<crawlPc, nEvents, pc, evURL, heap, maps, runRes, body,
                   fetchLog, bodyCalls, callerPc, resources, snapKeys,
                   extractVars, processVars,
                   multiVars, mu>>

\* chromedp.Run(ctx, actions...) returns: an error (always one when the
\* context is done) makes Crawl return it, and the deferred cancels run.
NavigateReturns ==
    /\ crawlPc = "navigate"
    /\ \/ ~ctxDone /\ crawlPc' = "scroll" /\ UNCHANGED ctxDone
       \/ crawlPc' = "failed" /\ ctxDone' = TRUE
    /\ UNCHANGED <<nEvents, pc, evURL, heap, maps, runRes, body, fetchLog,
                   bodyCalls, callerPc, resources, snapKeys, extractVars, processVars,
                   multiVars, mu>>

\* The scrolling Run returns; its error is only logged.
ScrollReturns ==
    /\ crawlPc = "scroll"
    /\ crawlPc' = "sleep"
    /\ UNCHANGED <<ctxDone, nEvents, pc, evURL, heap, maps, runRes, body,
                   fetchLog, bodyCalls, callerPc, resources, snapKeys,
                   extractVars, processVars,
                   multiVars, mu>>

\* time.Sleep(5s) ends and Crawl returns nil; the deferred cancels end the
\* context.  Nothing waits for the goroutines handleResponse started.
CrawlReturns ==
    /\ crawlPc = "sleep"
    /\ crawlPc' = "returned"
    /\ ctxDone' = TRUE
    /\ UNCHANGED <<nEvents, pc, evURL, heap, maps, runRes, body, fetchLog,
                   bodyCalls, callerPc, resources, snapKeys, extractVars, processVars,
                   multiVars, mu>>

\* The listener callback: go s.handleResponse(ctx, ev).
DeliverEvent(u) ==
    /\ Listening
    /\ nEvents < MaxEvents
    /\ nEvents' = nEvents + 1
    /\ pc' = [pc EXCEPT ![nEvents + 1] = "check"]
    /\ evURL' = [evURL EXCEPT ![nEvents + 1] = u]
    /\ UNCHANGED <<crawlPc, ctxDone, heap, maps, runRes, body, fetchLog,
                   bodyCalls, callerPc, resources, snapKeys, extractVars, processVars,
                   multiVars, mu>>

(***************************************************************************)
(* Spider.handleResponse                                                   *)
(***************************************************************************)

\* handleResponse as it would be if it never found the URL in the store.
ExistsNever(t) == FALSE

\* _, exists := s.resources[resp.URL], read under s.mu.
Exists(t) == evURL[t] \in DOMAIN maps[StoreMap]

\* handleResponse as it would be if it put the Resource in the store at the
\* lookup, before the body is fetched.
HandleCheckReserve(t) ==
    /\ pc[t] = "check"
    /\ IF Exists(t)
       THEN pc' = [pc EXCEPT ![t] = "dropped"] /\ UNCHANGED <<heap, maps>>
       ELSE /\ pc' = [pc EXCEPT ![t] = "getbody"]
            /\ heap' = [heap EXCEPT ![t] = [URL |-> evURL[t], StatusCode |-> 200,
                                            MimeType |-> MimeOf(evURL[t]),
                                            Content |-> NilBytes,
                                            Headers |-> [k \in {} |-> ""]]]
            /\ maps' = [maps EXCEPT ![StoreMap] = MapPut(@, evURL[t], t)]
    /\ UNCHANGED <<crawlPc, ctxDone, nEvents, evURL, runRes, body,
                   fetchLog, bodyCalls, callerPc, resources, snapKeys,
                   extractVars, processVars, multiVars, mu>>

\* The Resource handleResponse builds from the event: metadata only.
NewResource(t) ==
    [URL |-> evURL[t], StatusCode |-> 200, MimeType |-> MimeOf(evURL[t]),
     Content |-> NilBytes, Headers |-> [k \in {} |-> ""]]

\* Lock, look the URL up, unlock: return if it is there, else build the
\* Resource and start the goroutine that fetches the body.
HandleCheck(t) ==
    /\ pc[t] = "check"
    /\ IF Exists(t)
       THEN pc' = [pc EXCEPT ![t] = "dropped"] /\ UNCHANGED heap
       ELSE /\ pc' = [pc EXCEPT ![t] = "getbody"]
            /\ heap' = [heap EXCEPT ![t] = NewResource(t)]
    /\ UNCHANGED <<crawlPc, ctxDone, nEvents, evURL, maps, runRes, body,
                   fetchLog, bodyCalls, callerPc, resources, snapKeys,
                   extractVars, processVars,
                   multiVars, mu>>

\* The goroutine as it would be if it fetched directly whatever Run gave.
NeedsFallbackAlways(failed) == TRUE

\* if err != nil: whether the goroutine goes on to downloadResource.
NeedsFallback(failed) == failed

\* chromedp.Run(ctx, GetResponseBody(requestID)): it fails when the context
\* is done, and may fail otherwise; on success resource.Content = body.
GetBody(t) ==
    /\ pc[t] = "getbody"
    /\ bodyCalls' = [bodyCalls EXCEPT ![evURL[t]] = @ + 1]
    /\ \E failed \in BOOLEAN, b \in BrowserBodies :
         /\ ctxDone => failed
         /\ body' = [body EXCEPT ![t] = IF failed THEN NilBytes ELSE Bytes(b)]
         /\ runRes' = [runRes EXCEPT ![t] = [err |-> failed, body |-> body'[t]]]
         /\ IF NeedsFallback(failed)
            THEN pc' = [pc EXCEPT ![t] = "fallback"] /\ UNCHANGED heap
            ELSE /\ pc' = [pc EXCEPT ![t] = "put"]
                 /\ heap' = [heap EXCEPT ![t].Content = body'[t]]
    /\ UNCHANGED <<crawlPc, ctxDone, nEvents, evURL, maps, fetchLog,
                   callerPc, resources, snapKeys, extractVars, processVars,
                   multiVars, mu>>

\* The goroutine as it would be if it gave up on a nil fallback result.
AfterFallbackAbort(result) == IF result.isNil THEN "aborted" ELSE "put"

\* Where the goroutine goes once downloadResource has returned: always on
\* to the store write.
AfterFallback(result) == "put"

\* body = s.downloadResource(resource.URL); resource.Content = body.
Fallback(t) ==
    /\ pc[t] = "fallback"
    /\ \E o \in FetchOutcomes :
         /\ fetchLog' = [fetchLog EXCEPT ![t] =
                        Append(@, <<heap[t].URL, o, downloadResource(o)>>)]
         /\ body' = [body EXCEPT ![t] = downloadResource(o)]
         /\ heap' = [heap EXCEPT ![t].Content = body'[t]]
         /\ pc' = [pc EXCEPT ![t] = AfterFallback(body'[t])]
    /\ UNCHANGED <<crawlPc, ctxDone, nEvents, evURL, maps, runRes,
                   bodyCalls, callerPc, resources, snapKeys, extractVars, processVars,
                   multiVars, mu>>

\* s.mu.Lock(); s.resources[resource.URL] = resource; s.mu.Unlock().
Put(t) ==
    /\ pc[t] = "put"
    /\ maps' = [maps EXCEPT ![StoreMap] = MapPut(@, heap[t].URL, t)]
    /\ pc' = [pc EXCEPT ![t] = "done"]
    /\ UNCHANGED <<crawlPc, ctxDone, nEvents, evURL, heap, runRes, body,
                   fetchLog, bodyCalls, callerPc, resources, snapKeys,
                   extractVars, processVars,
                   multiVars, mu>>

\* One step of the goroutines of event t.
TaskStep(t) == HandleCheck(t) \/ GetBody(t) \/ Fallback(t) \/ Put(t)

(***************************************************************************)
(* The caller: crawlSingleURL and processResources                         *)
(***************************************************************************)

\* GetResources as it would be if it returned s.resources itself.
GetResourcesAlias ==
    /\ callerPc = "crawling"
    /\ crawlPc = "returned"
    /\ resources' = StoreMap
    /\ snapKeys' = maps[StoreMap]
    /\ callerPc' = "process"
    /\ UNCHANGED <<crawlPc, ctxDone, nEvents, pc, evURL, heap, maps, runRes,
                   body, fetchLog, bodyCalls, extractVars, processVars,
                   multiVars, mu>>

\* Spider.GetResources, called by processResources once Crawl has returned
\* nil: under s.mu, make a map and maps.Copy s.resources into it.
GetResources ==
    /\ callerPc = "crawling"
    /\ crawlPc = "returned"
    /\ maps' = [maps EXCEPT ![CopyMap] = maps[StoreMap]]
    /\ resources' = CopyMap
    /\ snapKeys' = maps[StoreMap]
    /\ callerPc' = "process"
    /\ UNCHANGED <<crawlPc, ctxDone, nEvents, pc, evURL, heap, runRes, body,
                   fetchLog, bodyCalls, extractVars, processVars,
                   multiVars, mu>>

\* The URLs the extracted source files can have: new ones, and one a
\* response was captured from.
MergeURLs == SynthURLs \cup {"u1"}

\* A source file ExtractFromResource synthesizes.
SourceFile(u) ==
    [URL |-> u, StatusCode |-> 200, MimeType |-> "application/javascript",
     Content |-> Bytes("b2"), Headers |-> [k \in {"X-Source"} |-> "SourceMap"]]

\* The mapping after processResources' merge loop, resources[url] = res,
\* has run for the source files of URLs S.
Merged(m, S) == [x \in (DOMAIN m) \cup S |-> IF x \in S THEN SynthId ELSE m[x]]

\* The rest of processResources: the source files extracted (those of URLs
\* S) are merged into the caller's mapping, which is then saved and reported.
MergeAndSave(S) ==
    /\ callerPc = "process"
    /\ heap' = [heap EXCEPT ![SynthId] =
                  IF S = {} THEN @ ELSE SourceFile(CHOOSE u \in S : TRUE)]
    /\ maps' = [maps EXCEPT ![resources] = Merged(@, S)]
    /\ callerPc' = "saved"
    /\ UNCHANGED <<crawlPc, ctxDone, nEvents, pc, evURL, runRes, body,
                   fetchLog, bodyCalls, resources, snapKeys, extractVars, processVars,
                   multiVars, mu>>

\* Crawl returned an error: the target is given up, nothing is processed.
CrawlFailed ==
    /\ callerPc = "crawling"
    /\ crawlPc = "failed"
    /\ callerPc' = "failed"
    /\ UNCHANGED <<crawlPc, ctxDone, nEvents, pc, evURL, heap, maps, runRes,
                   body, fetchLog, bodyCalls, resources, snapKeys,
                   extractVars, processVars,
                   multiVars, mu>>

(***************************************************************************)
(* The capture specification                                               *)
(***************************************************************************)

\* The capture pipeline at rest.
CaptureIdle ==
    /\ crawlPc = "start"
    /\ ctxDone = FALSE
    /\ nEvents = 0
    /\ pc = [t \in Tasks |-> "idle"]
    /\ evURL = [t \in Tasks |-> ""]
    /\ heap = [i \in {SynthId} \cup Tasks |-> NoResource]
    /\ maps = [m \in {StoreMap, CopyMap} |-> EmptyMap]
    /\ runRes = [t \in Tasks |-> [err |-> FALSE, body |-> NilBytes]]
    /\ body = [t \in Tasks |-> NilBytes]
    /\ fetchLog = [t \in Tasks |-> <<>>]
    /\ bodyCalls = [u \in URLs |-> 0]
    /\ callerPc = "crawling"
    /\ resources = NoMap
    /\ snapKeys = EmptyMap
    /\ mu = {}

\* No run of ExtractFromResource.
ExtractIdle ==
    /\ exPc = "off"
    /\ exRes = NoResource
    /\ exOut = <<>>

\* No run of processResources.
ProcessIdle ==
    /\ prPc = "off"
    /\ snapshot = EmptyMap
    /\ prResources = EmptyMap
    /\ todo = {}
    /\ calls = EmptyMap
    /\ sourceMapResources = EmptyMap
    /\ returned = EmptyMap

\* No run of crawlMultipleURLs.
MultiIdle ==
    /\ nTargets = 0
    /\ concurrency = 0
    /\ mainPc = "off"
    /\ loopIdx = 0
    /\ sem = 0
    /\ wg = 0
    /\ sessPc = <<>>
    /\ successCount = 0
    /\ failCount = 0
    /\ sessLog = <<>>

Init == CaptureIdle /\ ExtractIdle /\ ProcessIdle /\ MultiIdle

Next ==
    \/ StartBrowser
    \/ DeadlineExpires
    \/ NavigateReturns
    \/ ScrollReturns
    \/ CrawlReturns
    \/ \E u \in URLs : DeliverEvent(u)
    \/ \E t \in Tasks : HandleCheck(t)
    \/ \E t \in Tasks : GetBody(t)
    \/ \E t \in Tasks : Fallback(t)
    \/ \E t \in Tasks : Put(t)
    \/ GetResources
    \/ \E S \in SUBSET MergeURLs : MergeAndSave(S)
    \/ CrawlFailed

Spec == Init /\ [][Next]_vars

\* Every goroutine that was started keeps running: the Go scheduler is fair
\* and s.mu is held only for the length of one map access.
FairSpec == Spec /\ \A t \in Tasks : WF_vars(TaskStep(t))

(***************************************************************************)
(* s.mu: handleResponse and GetResources with their Lock and Unlock calls  *)
(* as steps of their own                                                   *)
(***************************************************************************)

\* The goroutine that calls GetResources, as a holder of s.mu.
CallerTask == 0

\* s.mu.Lock() returns: nobody holds the mutex.
LockForCheck(t) ==
    /\ pc[t] = "check"
    /\ mu = {}
    /\ mu' = {t}
    /\ pc' = [pc EXCEPT ![t] = "checkLocked"]
    /\ UNCHANGED <<crawlPc, ctxDone, nEvents, evURL, heap, maps, runRes, body,
                   fetchLog, bodyCalls, callerPc, resources, snapKeys,
                   extractVars, processVars, multiVars>>

\* handleResponse as it would be if it kept s.mu while its goroutine
\* fetches the body.
CheckAndHold(t) ==
    /\ pc[t] = "checkLocked"
    /\ IF Exists(t)
       THEN /\ pc' = [pc EXCEPT ![t] = "dropped"]
            /\ mu' = mu \ {t}
            /\ UNCHANGED heap
       ELSE /\ pc' = [pc EXCEPT ![t] = "getbody"]
            /\ heap' = [heap EXCEPT ![t] = NewResource(t)]
            /\ UNCHANGED mu
    /\ UNCHANGED <<crawlPc, ctxDone, nEvents, evURL, maps, runRes, body,
                   fetchLog, bodyCalls, callerPc, resources, snapKeys,
                   extractVars, processVars, multiVars>>

\* The lookup in s.resources and s.mu.Unlock(), on either branch; when the
\* URL is not there, the Resource is built and the goroutine started.
CheckAndUnlock(t) ==
    /\ pc[t] = "checkLocked"
    /\ mu' = mu \ {t}
    /\ IF Exists(t)
       THEN pc' = [pc EXCEPT ![t] = "dropped"] /\ UNCHANGED heap
       ELSE /\ pc' = [pc EXCEPT ![t] = "getbody"]
            /\ heap' = [heap EXCEPT ![t] = NewResource(t)]
    /\ UNCHANGED <<crawlPc, ctxDone, nEvents, evURL, maps, runRes, body,
                   fetchLog, bodyCalls, callerPc, resources, snapKeys,
                   extractVars, processVars, multiVars>>

\* s.mu.Lock() in the body-fetch goroutine, once Content is assigned.
LockForPut(t) ==
    /\ pc[t] = "put"
    /\ mu = {}
    /\ mu' = {t}
    /\ pc' = [pc EXCEPT ![t] = "putLocked"]
    /\ UNCHANGED <<crawlPc, ctxDone, nEvents, evURL, heap, maps, runRes, body,
                   fetchLog, bodyCalls, callerPc, resources, snapKeys,
                   extractVars, processVars, multiVars>>

\* s.resources[resource.URL] = resource; s.mu.Unlock().
PutAndUnlock(t) ==
    /\ pc[t] = "putLocked"
    /\ maps' = [maps EXCEPT ![StoreMap] = MapPut(@, heap[t].URL, t)]
    /\ pc' = [pc EXCEPT ![t] = "done"]
    /\ mu' = mu \ {t}
    /\ UNCHANGED <<crawlPc, ctxDone, nEvents, evURL, heap, runRes, body,
                   fetchLog, bodyCalls, callerPc, resources, snapKeys,
                   extractVars, processVars, multiVars>>

\* GetResources: s.mu.Lock() returns.
LockForCopy ==
    /\ callerPc = "crawling"
    /\ crawlPc = "returned"
    /\ mu = {}
    /\ mu' = {CallerTask}
    /\ callerPc' = "copyLocked"
    /\ UNCHANGED <<crawlPc, ctxDone, nEvents, pc, evURL, heap, maps, runRes,
                   body, fetchLog, bodyCalls, resources, snapKeys,
                   extractVars, processVars, multiVars>>

\* GetResources: make, maps.Copy, and the deferred s.mu.Unlock().
CopyAndUnlock ==
    /\ callerPc = "copyLocked"
    /\ maps' = [maps EXCEPT ![CopyMap] = maps[StoreMap]]
    /\ resources' = CopyMap
    /\ snapKeys' = maps[StoreMap]
    /\ callerPc' = "process"
    /\ mu' = mu \ {CallerTask}
    /\ UNCHANGED <<crawlPc, ctxDone, nEvents, pc, evURL, heap, runRes, body,
                   fetchLog, bodyCalls, extractVars, processVars, multiVars>>

NextLock ==
    \/ StartBrowser
    \/ DeadlineExpires
    \/ NavigateReturns
    \/ ScrollReturns
    \/ CrawlReturns
    \/ \E u \in URLs : DeliverEvent(u)
    \/ \E t \in Tasks : LockForCheck(t)
    \/ \E t \in Tasks : CheckAndUnlock(t)
    \/ \E t \in Tasks : GetBody(t)
    \/ \E t \in Tasks : Fallback(t)
    \/ \E t \in Tasks : LockForPut(t)
    \/ \E t \in Tasks : PutAndUnlock(t)
    \/ LockForCopy
    \/ CopyAndUnlock

SpecLock == Init /\ [][NextLock]_vars

(***************************************************************************)
(* Strings (package strings), on TLA+ strings; positions count from 1 and  *)
(* position 0 stands for Go's -1                                           *)
(***************************************************************************)

Min(S) == CHOOSE x \in S : \A y \in S : x <= y

Max(S) == CHOOSE x \in S : \A y \in S : x >= y

\* s[i-1:i]
At(s, i) == SubSeq(s, i, i)

\* s[i-1:]
From(s, i) == SubSeq(s, i, Len(s))

HasPrefix(s, p) == Len(p) <= Len(s) /\ SubSeq(s, 1, Len(p)) = p

HasSuffix(s, p) == Len(p) <= Len(s) /\ From(s, Len(s) - Len(p) + 1) = p

TrimPrefix(s, p) == IF HasPrefix(s, p) THEN From(s, Len(p) + 1) ELSE s

\* The positions of s at which sub occurs.
Occurrences(s, sub) ==
    {i \in 1..(Len(s) - Len(sub) + 1) : SubSeq(s, i, i + Len(sub) - 1) = sub}

Index(s, sub) ==
    IF Occurrences(s, sub) = {} THEN 0 ELSE Min(Occurrences(s, sub))

LastIndex(s, sub) ==
    IF Occurrences(s, sub) = {} THEN 0 ELSE Max(Occurrences(s, sub))

Contains(s, sub) == Occurrences(s, sub) # {}

\* The white space strings.TrimSpace trims.
Space == {" ", "\t", "\n", "\r"}

TrimSpace(s) ==
    LET keep == {i \in 1..Len(s) : At(s, i) \notin Space}
    IN IF keep = {} THEN "" ELSE SubSeq(s, Min(keep), Max(keep))

\* strings.Cut(s, sep): before, after, found.
Cut(s, sep) ==
    LET i == Index(s, sep)
    IN IF i = 0 THEN [before |-> s, after |-> "", found |-> FALSE]
       ELSE [before |-> SubSeq(s, 1, i - 1), after |-> From(s, i + Len(sep)),
             found |-> TRUE]

LowerAlpha == "abcdefghijklmnopqrstuvwxyz"

UpperAlpha == "ABCDEFGHIJKLMNOPQRSTUVWXYZ"

Digits == "0123456789"

RECURSIVE ToLower(_)
ToLower(s) ==
    IF s = "" THEN ""
    ELSE LET c == At(s, 1)
             i == Index(UpperAlpha, c)
         IN (IF i > 0 THEN At(LowerAlpha, i) ELSE c) \o ToLower(From(s, 2))

(***************************************************************************)
(* Extractor.findSourceMapURL                                              *)
(***************************************************************************)

LinePrefix == "//# sourceMappingURL="

BlockPrefix == "/*# sourceMappingURL="

\* The last position of the line that position i of s is on (i - 1 when
\* position i is a line break or past the end).
LineEnd(s, i) ==
    LET breaks == {j \in i..Len(s) : At(s, j) = "\n"}
    IN IF breaks = {} THEN Len(s) ELSE Min(breaks) - 1

\* `//# sourceMappingURL=(.+)`: the group of the leftmost match, or none.
\* The group is the rest of the line, which must not be empty.
MatchLine(s) ==
    LET L == Len(LinePrefix)
        at == {i \in Occurrences(s, LinePrefix) : LineEnd(s, i + L) >= i + L}
    IN IF at = {} THEN [found |-> FALSE, group |-> ""]
       ELSE [found |-> TRUE,
             group |-> SubSeq(s, Min(at) + L, LineEnd(s, Min(at) + L))]

\* `/\*# sourceMappingURL=(.+)\*/`: the group of the leftmost match, or
\* none.  The group is greedy: it runs to the last `*/` of the line.
MatchBlock(s) ==
    LET L == Len(BlockPrefix)
        closers(i) ==
            {k \in (i + L + 1)..(LineEnd(s, i + L) - 1) : SubSeq(s, k, k + 1) = "*/"}
        at == {i \in Occurrences(s, BlockPrefix) : closers(i) # {}}
    IN IF at = {} THEN [found |-> FALSE, group |-> ""]
       ELSE [found |-> TRUE,
             group |-> SubSeq(s, Min(at) + L, Max(closers(Min(at))) - 1)]

\* The patterns are tried in order; the first that matches gives the result,
\* its group trimmed, even when that leaves nothing.
findSourceMapURL(content) ==
    IF MatchLine(content).found THEN TrimSpace(MatchLine(content).group)
    ELSE IF MatchBlock(content).found THEN TrimSpace(MatchBlock(content).group)
    ELSE ""

(***************************************************************************)
(* net/url as buildSourceMapURL and extractSourceFiles use it: url.Parse,  *)
(* URL.ResolveReference and URL.String.  A URL is kept with its path in    *)
(* escaped form (URL.EscapedPath).  Userinfo, bracketed hosts and escapes  *)
(* in a host are left out; of the characters String escapes in a path only *)
(* the space is covered.                                                   *)
(***************************************************************************)

NoURL ==
    [err |-> "", Scheme |-> "", Opaque |-> "", Host |-> "", Path |-> "",
     ForceQuery |-> FALSE, RawQuery |-> "", Fragment |-> "", OmitHost |-> FALSE]

ParseError(e) == [NoURL EXCEPT !.err = e]

HexDigits == "0123456789abcdefABCDEF"

\* The bytes stringContainsCTLByte rejects (those below the space).
HasCTL(s) == \E i \in 1..Len(s) : At(s, i) \in {"\t", "\n", "\r"}

\* unescape fails: a % that two hexadecimal digits do not follow.
BadEscape(s) ==
    \E i \in 1..Len(s) :
      /\ At(s, i) = "%"
      /\ ~(/\ i + 2 <= Len(s)
           /\ Contains(HexDigits, At(s, i + 1))
           /\ Contains(HexDigits, At(s, i + 2)))

\* getScheme: the scheme and the rest, or an error.
RECURSIVE getSchemeAt(_, _)
getSchemeAt(raw, i) ==
    IF i > Len(raw) THEN [err |-> "", scheme |-> "", rest |-> raw]
    ELSE LET c == At(raw, i)
         IN IF Contains(LowerAlpha, c) \/ Contains(UpperAlpha, c)
            THEN getSchemeAt(raw, i + 1)
            ELSE IF Contains(Digits, c) \/ c \in {"+", "-", "."}
            THEN IF i = 1 THEN [err |-> "", scheme |-> "", rest |-> raw]
                 ELSE getSchemeAt(raw, i + 1)
            ELSE IF c = ":"
            THEN IF i = 1
                 THEN [err |-> "missing protocol scheme", scheme |-> "", rest |-> ""]
                 ELSE [err |-> "", scheme |-> SubSeq(raw, 1, i - 1),
                       rest |-> From(raw, i + 1)]
            ELSE [err |-> "", scheme |-> "", rest |-> raw]

getScheme(raw) == getSchemeAt(raw, 1)

\* validOptionalPort: "" or a colon and digits.
ValidOptionalPort(port) ==
    \/ port = ""
    \/ /\ At(port, 1) = ":"
       /\ \A i \in 2..Len(port) : Contains(Digits, At(port, i))

\* parseHost's checks on a host that is not bracketed.
BadHost(host) ==
    IF LastIndex(host, ":") > 0 /\ ~ValidOptionalPort(From(host, LastIndex(host, ":")))
    THEN "invalid port after host"
    ELSE IF Contains(host, " ") THEN "invalid character in host name"
    ELSE ""

\* The characters validEncoded lets stand in a path.
PathChars ==
    LowerAlpha \o UpperAlpha \o Digits \o "-_.~$&+,/:;=@!'()*[]%"

ValidEncoded(path) == \A i \in 1..Len(path) : Contains(PathChars, At(path, i))

\* escape(unescape(path)), for a path that is not a valid encoding.
RECURSIVE Reescape(_)
Reescape(path) ==
    IF path = "" THEN ""
    ELSE (IF At(path, 1) = " " THEN "%20" ELSE At(path, 1)) \o Reescape(From(path, 2))

\* URL.EscapedPath of the URL setPath(path) gives.
EscapedPath(path) == IF ValidEncoded(path) THEN path ELSE Reescape(path)

\* parse(rawURL, false), on a URL without its fragment.
parseNoFragment(raw) ==
    IF HasCTL(raw) THEN ParseError("invalid control character in URL")
    ELSE IF raw = "*" THEN [NoURL EXCEPT !.Path = "*"]
    ELSE IF getScheme(raw).err # "" THEN ParseError(getScheme(raw).err)
    ELSE
      LET scheme == ToLower(getScheme(raw).scheme)
          rest0 == getScheme(raw).rest
          force == HasSuffix(rest0, "?") /\ Cardinality(Occurrences(rest0, "?")) = 1
          rest1 == IF force THEN SubSeq(rest0, 1, Len(rest0) - 1)
                   ELSE Cut(rest0, "?").before
          query == IF force THEN "" ELSE Cut(rest0, "?").after
          u0 == [NoURL EXCEPT !.Scheme = scheme, !.ForceQuery = force,
                              !.RawQuery = query]
          hasAuth == /\ scheme # "" \/ ~HasPrefix(rest1, "///")
                     /\ HasPrefix(rest1, "//")
          auth0 == From(rest1, 3)
          host == IF Index(auth0, "/") > 0
                  THEN SubSeq(auth0, 1, Index(auth0, "/") - 1) ELSE auth0
          rest2 == IF ~hasAuth THEN rest1
                   ELSE IF Index(auth0, "/") > 0 THEN From(auth0, Index(auth0, "/"))
                   ELSE ""
      IN IF ~HasPrefix(rest1, "/") /\ scheme # ""
         THEN [u0 EXCEPT !.Opaque = rest1]
         ELSE IF ~HasPrefix(rest1, "/") /\ Contains(Cut(rest1, "/").before, ":")
         THEN ParseError("first path segment in URL cannot contain colon")
         ELSE IF hasAuth /\ BadHost(host) # "" THEN ParseError(BadHost(host))
         ELSE IF BadEscape(rest2) THEN ParseError("invalid URL escape")
         ELSE [u0 EXCEPT !.Host = IF hasAuth THEN host ELSE "",
                         !.OmitHost = ~hasAuth /\ scheme # "" /\ HasPrefix(rest1, "/"),
                         !.Path = EscapedPath(rest2)]

\* url.Parse(rawURL).
urlParse(raw) ==
    LET cut == Cut(raw, "#")
        u == parseNoFragment(cut.before)
    IN IF u.err # "" THEN u
       ELSE IF BadEscape(cut.after) THEN ParseError("invalid URL escape")
       ELSE [u EXCEPT !.Fragment = cut.after]

\* The loop of resolvePath over the elements of the path: what has been
\* written, and the last element read.
RECURSIVE resolveElems(_, _, _)
resolveElems(dst, first, remaining) ==
    LET c == Cut(remaining, "/")
        elem == c.before
        str == From(dst, 2)
        up == LastIndex(str, "/")
        dst1 == IF elem = "." THEN dst
                ELSE IF elem = ".."
                THEN (IF up = 0 THEN "/" ELSE "/" \o SubSeq(str, 1, up - 1))
                ELSE dst \o (IF first THEN "" ELSE "/") \o elem
        first1 == IF elem = "." THEN FALSE
                  ELSE IF elem = ".." THEN (IF up = 0 THEN TRUE ELSE first)
                  ELSE FALSE
    IN IF c.found THEN resolveElems(dst1, first1, c.after)
       ELSE [dst |-> dst1, elem |-> elem]

\* resolvePath as it would be if it put the reference after the whole base.
resolvePathAppend(base, ref) == base \o "/" \o ref

\* resolvePath(base, ref): RFC 3986 sections 5.2.2 to 5.2.4.
resolvePath(base, ref) ==
    LET full == IF ref = "" THEN base
                ELSE IF At(ref, 1) # "/"
                THEN SubSeq(base, 1, LastIndex(base, "/")) \o ref
                ELSE ref
        res == resolveElems("/", TRUE, full)
        r == IF res.elem \in {".", ".."} THEN res.dst \o "/" ELSE res.dst
    IN IF full = "" THEN ""
       ELSE IF Len(r) > 1 /\ At(r, 2) = "/" THEN From(r, 2) ELSE r

\* base.ResolveReference(ref).
ResolveReference(base, ref) ==
    LET url == [ref EXCEPT !.Scheme = IF ref.Scheme = "" THEN base.Scheme ELSE @]
        inherit == ref.Path = "" /\ ~ref.ForceQuery /\ ref.RawQuery = ""
        url1 == IF inherit
                THEN [url EXCEPT !.RawQuery = base.RawQuery,
                                 !.Fragment = IF ref.Fragment = ""
                                              THEN base.Fragment ELSE @]
                ELSE url
    IN IF ref.Scheme # "" \/ ref.Host # ""
       THEN [url EXCEPT !.Path = resolvePath(ref.Path, "")]
       ELSE IF ref.Opaque # ""
       THEN [url EXCEPT !.Host = "", !.Path = ""]
       ELSE IF ref.Path = "" /\ base.Opaque # ""
       THEN [url1 EXCEPT !.Opaque = base.Opaque, !.Host = "", !.Path = ""]
       ELSE [url1 EXCEPT !.Host = base.Host,
                         !.Path = resolvePath(base.Path, ref.Path)]

\* URL.String().
urlString(u) ==
    LET scheme == IF u.Scheme # "" THEN u.Scheme \o ":" ELSE ""
        auth == IF u.Scheme # "" \/ u.Host # ""
                THEN IF u.OmitHost /\ u.Host = "" THEN ""
                     ELSE (IF u.Host # "" \/ u.Path # "" THEN "//" ELSE "") \o u.Host
                ELSE ""
        slash == IF u.Path # "" /\ At(u.Path, 1) # "/" /\ u.Host # "" THEN "/" ELSE ""
        dot == IF scheme \o auth \o slash = "" /\ Contains(Cut(u.Path, "/").before, ":")
               THEN "./" ELSE ""
        hier == IF u.Opaque # "" THEN u.Opaque ELSE auth \o slash \o dot \o u.Path
    IN scheme \o hier
       \o (IF u.ForceQuery \/ u.RawQuery # "" THEN "?" \o u.RawQuery ELSE "")
       \o (IF u.Fragment # "" THEN "#" \o u.Fragment ELSE "")

(***************************************************************************)
(* Extractor.buildSourceMapURL                                             *)
(***************************************************************************)

\* buildSourceMapURL as it would be if it resolved every reference against
\* the base.
buildSourceMapURLResolveAll(baseURL, sourceMapURL) ==
    CHOOSE r \in
      {IF base.err # "" THEN [url |-> "", err |-> base.err]
       ELSE IF relative.err # "" THEN [url |-> "", err |-> relative.err]
       ELSE CHOOSE b \in
              {[url |-> urlString(fullURL), err |-> ""] :
                 fullURL \in {ResolveReference(base, relative)}} : TRUE
       : base \in {urlParse(baseURL)},
         relative \in {urlParse(sourceMapURL)}} : TRUE

\* The full URL and the error buildSourceMapURL returns.
\* (base, relative and fullURL are each computed once, as the elements of
\* one-element sets.)
buildSourceMapURL(baseURL, sourceMapURL) ==
    IF HasPrefix(sourceMapURL, "http://") \/ HasPrefix(sourceMapURL, "https://")
    THEN [url |-> sourceMapURL, err |-> ""]
    ELSE CHOOSE r \in
           {IF base.err # "" THEN [url |-> "", err |-> base.err]
            ELSE IF relative.err # "" THEN [url |-> "", err |-> relative.err]
            ELSE CHOOSE b \in
                   {[url |-> urlString(fullURL), err |-> ""] :
                      fullURL \in {ResolveReference(base, relative)}} : TRUE
            : base \in {urlParse(baseURL)},
              relative \in {urlParse(sourceMapURL)}} : TRUE

(***************************************************************************)
(* Extractor.downloadSourceMap and Extractor.parseSourceMap                *)
(***************************************************************************)

\* The zero SourceMap (the fields parsed and not used are left out).
NoSourceMap == [Sources |-> <<>>, SourcesContent |-> <<>>, SourceRoot |-> ""]

\* A response body: JSON text that is malformed, or an object with some of
\* the keys sources, sourcesContent and sourceRoot, each holding a list of
\* strings (kind "strings"), a string ("string") or null ("null").
Malformed == [wellFormed |-> FALSE, fields |-> [k \in {} |-> 0]]

JSONObject(f) == [wellFormed |-> TRUE, fields |-> f]

JStrings(v) == [kind |-> "strings", val |-> v]

JString(v) == [kind |-> "string", val |-> v]

JNull == [kind |-> "null", val |-> ""]

\* The kind of JSON value json.Unmarshal accepts for a field of SourceMap.
FieldKind ==
    [sources |-> "strings", sourcesContent |-> "strings", sourceRoot |-> "string"]

\* json.Unmarshal's result for a body: an error for malformed text and for a
\* value of the wrong kind; a key that is absent or null leaves the zero
\* value.
parseSourceMap(content) ==
    LET f == content.fields
        bad == \E k \in DOMAIN f : f[k].kind \notin {"null", FieldKind[k]}
        get(k, zero) ==
            IF k \in DOMAIN f /\ f[k].kind # "null" THEN f[k].val ELSE zero
    IN IF ~content.wellFormed \/ bad
       THEN [doc |-> NoSourceMap, err |-> "decode"]
       ELSE [doc |-> [Sources |-> get("sources", <<>>),
                      SourcesContent |-> get("sourcesContent", <<>>),
                      SourceRoot |-> get("sourceRoot", "")],
             err |-> ""]

\* What sme.client.Get and io.ReadAll can do: the GET fails, or a response
\* of some status arrives whose body is read whole or fails to be read.
MapGetFails == [kind |-> "getErr", status |-> 0, body |-> Malformed]

MapReadFails(st) == [kind |-> "readErr", status |-> st, body |-> Malformed]

MapResponse(st, b) == [kind |-> "resp", status |-> st, body |-> b]

\* downloadSourceMap as it would be if it did not look at the status.
downloadSourceMapAnyStatus(o) ==
    IF o.kind = "getErr" THEN [content |-> Malformed, err |-> "transport"]
    ELSE IF o.kind = "readErr" THEN [content |-> Malformed, err |-> "transport"]
    ELSE [content |-> o.body, err |-> ""]

\* downloadSourceMap's content and error, given what the transport did.
downloadSourceMap(o) ==
    IF o.kind = "getErr" THEN [content |-> Malformed, err |-> "transport"]
    ELSE IF o.status # 200 THEN [content |-> Malformed, err |-> "HTTP status"]
    ELSE IF o.kind = "readErr" THEN [content |-> Malformed, err |-> "transport"]
    ELSE [content |-> o.body, err |-> ""]

(***************************************************************************)
(* Extractor.extractSourceFiles and its helpers                            *)
(***************************************************************************)

\* The elements of a path between its slashes.
RECURSIVE Split(_)
Split(path) ==
    IF Cut(path, "/").found
    THEN <<Cut(path, "/").before>> \o Split(Cut(path, "/").after)
    ELSE <<path>>

RECURSIVE JoinElems(_)
JoinElems(elems) ==
    IF elems = <<>> THEN ""
    ELSE IF Len(elems) = 1 THEN elems[1]
    ELSE elems[1] \o "/" \o JoinElems(Tail(elems))

\* filepath.Clean's pass over the elements: empty and "." elements go, ".."
\* takes the element before it away, stays when there is none before it in a
\* relative path, and goes at the root.
RECURSIVE CleanElems(_, _, _)
CleanElems(elems, out, rooted) ==
    IF elems = <<>> THEN out
    ELSE LET e == Head(elems)
             out1 == IF e = "" \/ e = "." THEN out
                     ELSE IF e = ".."
                     THEN IF out # <<>> /\ out[Len(out)] # ".."
                          THEN SubSeq(out, 1, Len(out) - 1)
                          ELSE IF rooted THEN out ELSE Append(out, "..")
                     ELSE Append(out, e)
         IN CleanElems(Tail(elems), out1, rooted)

\* filepath.Clean, with "/" the separator.
Clean(path) ==
    LET rooted == HasPrefix(path, "/")
        joined == JoinElems(CleanElems(Split(path), <<>>, rooted))
    IN IF path = "" THEN "."
       ELSE IF rooted THEN "/" \o joined
       ELSE IF joined = "" THEN "." ELSE joined

\* filepath.Join of two elements: empty elements are ignored and the result
\* is Cleaned; all elements empty gives "".
Join(a, b) ==
    IF a = "" /\ b = "" THEN ""
    ELSE IF a = "" THEN Clean(b)
    ELSE IF b = "" THEN Clean(a)
    ELSE Clean(a \o "/" \o b)

\* filepath.Ext: from the last dot of the last element, or "".
Ext(path) ==
    LET last == From(path, LastIndex(path, "/") + 1)
    IN IF LastIndex(last, ".") = 0 THEN "" ELSE From(last, LastIndex(last, "."))

cleanSourcePath(sourcePath, sourceRoot) ==
    LET p1 == TrimPrefix(sourcePath, "webpack://")
        p2 == TrimPrefix(p1, "webpack:///")
        p3 == TrimPrefix(p2, "./")
        cleanRoot == TrimPrefix(TrimPrefix(sourceRoot, "webpack://"), "/")
    IN IF sourceRoot # "" THEN Join(cleanRoot, p3) ELSE p3

\* buildSourceURL as it would be if a source path that is a URL were kept.
buildSourceURLKeepSource(baseURL, sourcePath) ==
    IF Contains(sourcePath, "://") THEN sourcePath
    ELSE baseURL.Scheme \o "://" \o baseURL.Host \o "/" \o sourcePath

\* fmt.Sprintf("%s://%s/%s", baseURL.Scheme, baseURL.Host, sourcePath)
buildSourceURL(baseURL, sourcePath) ==
    baseURL.Scheme \o "://" \o baseURL.Host \o "/" \o sourcePath

\* The map mimeTypes of guessMimeType.
MimeTable ==
    [ext \in {".js", ".jsx", ".ts", ".tsx", ".css", ".scss", ".sass", ".less",
              ".json", ".html", ".vue"} |->
       CASE ext \in {".js", ".jsx"} -> "application/javascript"
         [] ext \in {".ts", ".tsx"} -> "application/typescript"
         [] ext = ".css" -> "text/css"
         [] ext = ".scss" -> "text/x-scss"
         [] ext = ".sass" -> "text/x-sass"
         [] ext = ".less" -> "text/x-less"
         [] ext = ".json" -> "application/json"
         [] ext = ".html" -> "text/html"
         [] ext = ".vue" -> "text/x-vue"]

\* guessMimeType as it would be if it looked the extension up as written.
guessMimeTypeExact(path) ==
    IF Ext(path) \in DOMAIN MimeTable THEN MimeTable[Ext(path)] ELSE "text/plain"

guessMimeType(path) ==
    LET ext == ToLower(Ext(path))
    IN IF ext \in {".js", ".jsx"} THEN "application/javascript"
       ELSE IF ext \in {".ts", ".tsx"} THEN "application/typescript"
       ELSE IF ext = ".css" THEN "text/css"
       ELSE IF ext = ".scss" THEN "text/x-scss"
       ELSE IF ext = ".sass" THEN "text/x-sass"
       ELSE IF ext = ".less" THEN "text/x-less"
       ELSE IF ext = ".json" THEN "application/json"
       ELSE IF ext = ".html" THEN "text/html"
       ELSE IF ext = ".vue" THEN "text/x-vue"
       ELSE "text/plain"

\* The loop of extractSourceFiles as it would be if it skipped no entry.
sourceFilesFromAll(sm, parsedURL, i) ==
    [k \in 1..Len(sm.Sources) |->
       [URL |-> buildSourceURL(parsedURL,
                               cleanSourcePath(sm.Sources[k], sm.SourceRoot)),
        StatusCode |-> 200,
        MimeType |-> guessMimeType(cleanSourcePath(sm.Sources[k], sm.SourceRoot)),
        Content |-> IF k <= Len(sm.SourcesContent)
                    THEN Bytes(sm.SourcesContent[k]) ELSE Bytes(""),
        Headers |-> [h \in {"X-Source"} |-> "SourceMap"]]]

\* The Resources synthesized for the entries of sm from the i-th on.
RECURSIVE sourceFilesFrom(_, _, _)
sourceFilesFrom(sm, parsedURL, i) ==
    IF i > Len(sm.Sources) THEN <<>>
    ELSE IF i > Len(sm.SourcesContent) \/ sm.SourcesContent[i] = ""
    THEN sourceFilesFrom(sm, parsedURL, i + 1)
    ELSE LET cleanPath == cleanSourcePath(sm.Sources[i], sm.SourceRoot)
         IN <<[URL |-> buildSourceURL(parsedURL, cleanPath),
               StatusCode |-> 200,
               MimeType |-> guessMimeType(cleanPath),
               Content |-> Bytes(sm.SourcesContent[i]),
               Headers |-> [k \in {"X-Source"} |-> "SourceMap"]]>>
             \o sourceFilesFrom(sm, parsedURL, i + 1)

extractSourceFiles(sm, sourceMapURL) ==
    CHOOSE files \in
      {IF parsedURL.err # "" THEN <<>> ELSE sourceFilesFrom(sm, parsedURL, 1) :
         parsedURL \in {urlParse(sourceMapURL)}} : TRUE

(***************************************************************************)
(* Extractor.ExtractFromResource, one stage per step                       *)
(***************************************************************************)

\* The MIME types of the resources given to the extractor.
MimeTypes ==
    {"image/png", "text/html", "", "TEXT/CSS", "application/javascript",
     "text/css", "application/x-javascript; charset=utf-8"}

\* Their URLs; the last one url.Parse rejects.
ResourceURLs ==
    {"https://example.com/static/app.js", "http://cdn.example.com/a/b/app.css?v=2",
     ":bad"}

\* Reference values: relative ones (to the directory, going up, from the
\* root, and naming a host), an absolute one, and three url.Parse rejects.
GoodRefs ==
    {"app.js.map", "../maps/app.js.map", "/m/a.map",
     "//maps.example.net/m/a.map", "https://cdn.example.com/app.js.map"}

BadRefs == {":bad", "<%= url %>", "1a:b.map"}

\* Content with the reference ref in the line form and in the block form.
LineForm(ref) == "var a=1;\n//# sourceMappingURL=" \o ref \o "\r\n"

BlockForm(ref) == "a{}\n/*# sourceMappingURL= " \o ref \o " */\n"

\* Content with no reference the two patterns recognize.
NoRefContents ==
    {"", "var a=1;", "var a=1;\n// sourceMappingURL=app.js.map",
     "var a=1;\n//# sourceMappingURL=\n", "var a=1;\n//# sourceMappingURL=  \n",
     "a{}\n/*# sourceMappingURL=app.css.map", "a{}\n/*# sourceMappingURL=*/"}

\* The contents, each with the reference it holds ("" for none).
Contents ==
    {[text |-> t, ref |-> ""] : t \in NoRefContents}
    \cup {[text |-> LineForm(r), ref |-> r] : r \in GoodRefs \cup BadRefs}
    \cup {[text |-> BlockForm(r), ref |-> r] : r \in GoodRefs \cup BadRefs}

\* The source map documents a server may answer with.
DocShort ==
    JSONObject([sources |-> JStrings(<<"webpack:///./src/App.js", "b.css", "c.ts">>),
                sourcesContent |-> JStrings(<<"x">>)])

DocRooted ==
    JSONObject([sources |-> JStrings(<<"./a.ts", "lib/b.vue">>),
                sourcesContent |-> JStrings(<<"", "y">>),
                sourceRoot |-> JString("webpack:///src/")])

\* One source for every extension guessMimeType lists, and sources whose
\* extension is not listed, is missing, is in upper case, or that carry a
\* scheme and a host of their own; one of them has no content.
DocExts ==
    JSONObject([sources |->
                  JStrings(<<"a.js", "b.jsx", "c.ts", "d.tsx", "e.css", "f.scss",
                             "g.sass", "h.less", "i.json", "j.html", "k.vue",
                             "skipped.js", "app.js.map", "README",
                             "dir.js/noext", "src/App.JS",
                             "http://evil.example/x.js">>),
                sourcesContent |->
                  JStrings(<<"1", "2", "3", "4", "5", "6", "7", "8", "9", "10",
                             "11", "", "13", "14", "15", "16", "17">>)])

\* More contents than sources.
DocLong ==
    JSONObject([sources |-> JStrings(<<"p.ts", "q.ts">>),
                sourcesContent |-> JStrings(<<"", "2", "3">>)])

DocWrongKind == JSONObject([sources |-> JString("a.js")])

DocNulls == JSONObject([sources |-> JNull])

MapOutcomes ==
    {MapGetFails, MapReadFails(200), MapResponse(404, DocShort),
     MapResponse(200, Malformed), MapResponse(200, DocWrongKind),
     MapResponse(200, DocNulls), MapResponse(200, DocShort),
     MapResponse(200, DocRooted), MapResponse(200, DocExts),
     MapResponse(200, DocLong)}

\* What a run has produced: the reference found, the URL built, the GETs
\* made and what the transport did for them, the body downloaded, the calls
\* of parseSourceMap, the document parsed, and the sequence and the error
\* returned.
NoOutput ==
    [expect |-> "", ref |-> "", fullURL |-> "", gets |-> <<>>,
     fetched |-> <<>>, content |-> Malformed, parses |-> 0,
     doc |-> NoSourceMap, result |-> <<>>, err |-> ""]

\* The extractor as it would be if it scanned every resource.
EligibleAny(mimeType) == TRUE

\* The MIME types ExtractFromResource goes on with.
Eligible(mimeType) == Contains(mimeType, "javascript") \/ Contains(mimeType, "css")

CheckEligible ==
    /\ exPc = "eligible"
    /\ exPc' = IF Eligible(exRes.MimeType) THEN "find" ELSE "Ineligible"
    /\ UNCHANGED <<exRes, exOut, captureVars, processVars, multiVars>>

FindReference ==
    /\ exPc = "find"
    /\ LET sourceMapURL == findSourceMapURL(exRes.Content.bytes)
       IN IF sourceMapURL = ""
          THEN exPc' = "NoReference" /\ UNCHANGED exOut
          ELSE exPc' = "build" /\ exOut' = [exOut EXCEPT !.ref = sourceMapURL]
    /\ UNCHANGED <<exRes, captureVars, processVars, multiVars>>

\* The extractor as it would be if it went on without looking at the error
\* of buildSourceMapURL.
BuildURLUnchecked ==
    /\ exPc = "build"
    /\ exPc' = "download"
    /\ exOut' = [exOut EXCEPT !.fullURL = buildSourceMapURL(exRes.URL, exOut.ref).url]
    /\ UNCHANGED <<exRes, captureVars, processVars, multiVars>>

BuildURL ==
    /\ exPc = "build"
    /\ \E built \in {buildSourceMapURL(exRes.URL, exOut.ref)} :
          IF built.err # ""
          THEN /\ exPc' = "ResolveFailed"
               /\ exOut' = [exOut EXCEPT !.err = "failed to build source map URL"]
          ELSE /\ exPc' = "download"
               /\ exOut' = [exOut EXCEPT !.fullURL = built.url]
    /\ UNCHANGED <<exRes, captureVars, processVars, multiVars>>

Download ==
    /\ exPc = "download"
    /\ \E o \in MapOutcomes :
         LET got == downloadSourceMap(o)
         IN /\ exPc' = IF got.err # "" THEN "DownloadFailed" ELSE "parse"
            /\ exOut' = [exOut EXCEPT !.gets = Append(@, exOut.fullURL),
                                      !.fetched = Append(@, o),
                                      !.content = got.content]
    /\ UNCHANGED <<exRes, captureVars, processVars, multiVars>>

\* The extractor as it would be if it went on without looking at the error
\* of parseSourceMap.
ParseIgnoreError ==
    /\ exPc = "parse"
    /\ LET parsed == parseSourceMap(exOut.content)
       IN /\ exPc' = "extract"
          /\ exOut' = [exOut EXCEPT !.parses = @ + 1, !.doc = parsed.doc]
    /\ UNCHANGED <<exRes, captureVars, processVars, multiVars>>

Parse ==
    /\ exPc = "parse"
    /\ LET parsed == parseSourceMap(exOut.content)
       IN /\ exPc' = IF parsed.err # "" THEN "ParseFailed" ELSE "extract"
          /\ exOut' = [exOut EXCEPT !.parses = @ + 1, !.doc = parsed.doc]
    /\ UNCHANGED <<exRes, captureVars, processVars, multiVars>>

Materialize ==
    /\ exPc = "extract"
    /\ exPc' = "Materialized"
    /\ exOut' = [exOut EXCEPT !.result = extractSourceFiles(exOut.doc, exOut.fullURL)]
    /\ UNCHANGED <<exRes, captureVars, processVars, multiVars>>

\* ExtractFromResource is called with a resource.
InitExtract ==
    /\ CaptureIdle
    /\ ProcessIdle
    /\ MultiIdle
    /\ exPc = "eligible"
    /\ \E u \in ResourceURLs, m \in MimeTypes, c \in Contents :
         /\ exRes = [URL |-> u, StatusCode |-> 200, MimeType |-> m,
                     Content |-> Bytes(c.text), Headers |-> [k \in {} |-> ""]]
         /\ exOut = [NoOutput EXCEPT !.expect = c.ref]

NextExtract ==
    \/ CheckEligible
    \/ FindReference
    \/ BuildURL
    \/ Download
    \/ Parse
    \/ Materialize

SpecExtract == InitExtract /\ [][NextExtract]_vars

\* The run leaves the step it is at. Every step of NextExtract is enabled
\* at its own position and moves the run to another one.
LeaveStep ==
    /\ exPc \in {"eligible", "find", "build", "download", "parse", "extract"}
    /\ exPc' \in {"find", "build", "download", "parse", "extract",
                  "Ineligible", "NoReference", "ResolveFailed",
                  "DownloadFailed", "ParseFailed", "Materialized"} \ {exPc}

\* ExtractFromResource runs on: none of its steps waits for another
\* goroutine, and the download has a timeout.
FairSpecExtract == SpecExtract /\ WF_exPc(LeaveStep)

(***************************************************************************)
(* processResources: the extraction loop, the merge and the save           *)
(***************************************************************************)

\* ExtractFromResource from the download on, for the URL built, when the
\* transport does o.
extractFrom(fullURL, o) ==
    IF downloadSourceMap(o).err # "" THEN [files |-> <<>>, err |-> ""]
    ELSE CHOOSE r \in
           {IF parsed.err # "" THEN [files |-> <<>>, err |-> ""]
            ELSE [files |-> extractSourceFiles(parsed.doc, fullURL), err |-> ""]
            : parsed \in {parseSourceMap(downloadSourceMap(o).content)}} : TRUE

\* ExtractFromResource as one call: the source files and the error it
\* returns for the resource res when the transport does o for the download.
ExtractFromResource(res, o) ==
    IF ~Eligible(res.MimeType) THEN [files |-> <<>>, err |-> ""]
    ELSE CHOOSE r \in
           {IF sourceMapURL = "" THEN [files |-> <<>>, err |-> ""]
            ELSE CHOOSE b \in
                   {IF built.err # ""
                    THEN [files |-> <<>>, err |-> "failed to build source map URL"]
                    ELSE extractFrom(built.url, o)
                    : built \in {buildSourceMapURL(res.URL, sourceMapURL)}} : TRUE
            : sourceMapURL \in {findSourceMapURL(res.Content.bytes)}} : TRUE

\* A captured resource.
Captured(u, m, c) ==
    [URL |-> u, StatusCode |-> 200, MimeType |-> m, Content |-> Bytes(c),
     Headers |-> [k \in {} |-> ""]]

\* The resources a snapshot can hold: two scripts whose maps are on the same
\* host, a script whose reference is a template placeholder, an image, and a
\* file captured from the URL the source files of DocRooted get.
Candidates ==
    {Captured("https://example.com/static/app.js", "application/javascript",
              LineForm("app.js.map")),
     Captured("https://example.com/static/vendor.js", "application/javascript",
              LineForm("/m/a.map")),
     Captured("https://example.com/static/tpl.js", "application/javascript",
              LineForm("<%= url %>")),
     Captured("https://example.com/logo.png", "image/png", "PNG"),
     Captured("https://example.com/src/lib/b.vue", "text/plain", "captured")}

\* DocRooted with another content for the same source.
DocRootedB ==
    JSONObject([sources |-> JStrings(<<"./a.ts", "lib/b.vue">>),
                sourcesContent |-> JStrings(<<"", "z">>),
                sourceRoot |-> JString("webpack:///src/")])

\* What the transport does for the downloads of a batch.
ProcessOutcomes ==
    {MapGetFails, MapResponse(200, Malformed), MapResponse(200, DocShort),
     MapResponse(200, DocRooted), MapResponse(200, DocRootedB)}

\* The mapping URL -> Resource of a set of resources with distinct URLs.
MapOf(S) == [u \in {r.URL : r \in S} |-> CHOOSE r \in S : r.URL = u]

\* sourceMapResources[sourceFile.URL] = sourceFile, for each of files in turn.
RECURSIVE PutAll(_, _)
PutAll(m, files) ==
    IF files = <<>> THEN m
    ELSE PutAll(MapPut(m, Head(files).URL, Head(files)), Tail(files))

\* The loop of processResources as it would be if it returned from the loop
\* at the first error.
ExtractOneAbort(u, o) ==
    /\ prPc = "extract"
    /\ u \in todo
    /\ \E r \in {ExtractFromResource(prResources[u], o)} :
          /\ calls' = [calls EXCEPT ![u] = @ + 1]
          /\ returned' = MapPut(returned, u, r)
          /\ IF r.err # ""
             THEN todo' = {} /\ UNCHANGED sourceMapResources
             ELSE /\ todo' = todo \ {u}
                  /\ sourceMapResources' = PutAll(sourceMapResources, r.files)
    /\ UNCHANGED <<prPc, snapshot, prResources, captureVars, extractVars,
                   multiVars>>

\* The loop of processResources as it would be if it put the source files
\* in resources, the mapping it ranges over, and went on to visit them.
ExtractOneRecursive(u, o) ==
    /\ prPc = "extract"
    /\ u \in todo
    /\ \E r \in {ExtractFromResource(prResources[u], o)} :
          /\ returned' = MapPut(returned, u, r)
          /\ IF r.err # ""
             THEN /\ calls' = [calls EXCEPT ![u] = @ + 1]
                  /\ todo' = todo \ {u}
                  /\ UNCHANGED <<sourceMapResources, prResources>>
             ELSE \E new \in {{r.files[k].URL : k \in 1..Len(r.files)}
                                 \ DOMAIN calls} :
                  /\ calls' = [x \in (DOMAIN calls) \cup new |->
                                 IF x = u THEN calls[u] + 1
                                 ELSE IF x \in new THEN 0 ELSE calls[x]]
                  /\ todo' = (todo \ {u}) \cup new
                  /\ sourceMapResources' = PutAll(sourceMapResources, r.files)
                  /\ prResources' = PutAll(prResources, r.files)
    /\ UNCHANGED <<prPc, snapshot, captureVars, extractVars, multiVars>>

\* One iteration of the range loop over resources: the entry of key u is
\* visited, ExtractFromResource is called with it, an error is logged and
\* the loop continues, and the source files are put in sourceMapResources.
ExtractOne(u, o) ==
    /\ prPc = "extract"
    /\ u \in todo
    /\ \E r \in {ExtractFromResource(prResources[u], o)} :
          /\ calls' = [calls EXCEPT ![u] = @ + 1]
          /\ returned' = MapPut(returned, u, r)
          /\ todo' = todo \ {u}
          /\ IF r.err # ""
             THEN UNCHANGED sourceMapResources
             ELSE sourceMapResources' = PutAll(sourceMapResources, r.files)
    /\ UNCHANGED <<prPc, snapshot, prResources, captureVars, extractVars,
                   multiVars>>

\* The merge as it would be if it kept the entry a URL already has.
MergeKeepFirst ==
    /\ prPc = "extract"
    /\ todo = {}
    /\ prResources' =
         [x \in (DOMAIN prResources) \cup (DOMAIN sourceMapResources) |->
            IF x \in DOMAIN prResources THEN prResources[x]
            ELSE sourceMapResources[x]]
    /\ prPc' = "merged"
    /\ UNCHANGED <<snapshot, todo, calls, sourceMapResources, returned,
                   captureVars, extractVars, multiVars>>

\* The range loop is over; the merge loop, resources[url] = res for every
\* entry of sourceMapResources.
Merge ==
    /\ prPc = "extract"
    /\ todo = {}
    /\ prResources' =
         [x \in (DOMAIN prResources) \cup (DOMAIN sourceMapResources) |->
            IF x \in DOMAIN sourceMapResources THEN sourceMapResources[x]
            ELSE prResources[x]]
    /\ prPc' = "merged"
    /\ UNCHANGED <<snapshot, todo, calls, sourceMapResources, returned,
                   captureVars, extractVars, multiVars>>

\* store.Save(resources), and store.GenerateReport(resources) when Save has
\* not failed.
SaveAndReport ==
    /\ prPc = "merged"
    /\ \E saveErr \in BOOLEAN :
         prPc' = IF saveErr THEN "saveFailed" ELSE "reported"
    /\ UNCHANGED <<snapshot, prResources, todo, calls, sourceMapResources,
                   returned, captureVars, extractVars, multiVars>>

\* processResources has been called and GetResources has returned a
\* snapshot.
InitProcess ==
    /\ CaptureIdle
    /\ ExtractIdle
    /\ MultiIdle
    /\ prPc = "extract"
    /\ \E S \in SUBSET Candidates :
         /\ snapshot = MapOf(S)
         /\ prResources = MapOf(S)
         /\ todo = {r.URL : r \in S}
         /\ calls = [u \in {r.URL : r \in S} |-> 0]
    /\ sourceMapResources = EmptyMap
    /\ returned = EmptyMap

NextProcess ==
    \/ \E u \in todo, o \in ProcessOutcomes : ExtractOne(u, o)
    \/ Merge
    \/ SaveAndReport

SpecProcess == InitProcess /\ [][NextProcess]_vars

(***************************************************************************)
(* crawlMultipleURLs: the batch mode                                       *)
(***************************************************************************)

\* The most targets a batch has, and the largest -concurrency given.
MaxTargets == 3

MaxConcurrency == 2

Targets == 1..nTargets

\* Where a goroutine is between sem <- struct{}{} and <-sem.
HoldsSlot == {"crawl", "countFail", "process", "countSuccess", "release"}

\* wg.Add(1), at the top of the loop body.
WgAdd ==
    /\ mainPc = "add"
    /\ wg' = wg + 1
    /\ mainPc' = "acquire"
    /\ UNCHANGED <<sessLog, nTargets, concurrency, loopIdx, sem, sessPc, successCount,
                   failCount, captureVars, extractVars, processVars>>

\* The loop as it would be if the send on sem never blocked.
AcquireUnbounded ==
    /\ mainPc = "acquire"
    /\ sem' = sem + 1
    /\ sessPc' = [sessPc EXCEPT ![loopIdx + 1] = "crawl"]
    /\ loopIdx' = loopIdx + 1
    /\ mainPc' = IF loopIdx + 1 < nTargets THEN "add" ELSE "wait"
    /\ UNCHANGED <<sessLog, nTargets, concurrency, wg, successCount, failCount,
                   captureVars, extractVars, processVars>>

\* sem <- struct{}{}, which blocks while the channel is full, and then the
\* go statement: the goroutine of the target starts with crawler.New and
\* Crawl.
Acquire ==
    /\ mainPc = "acquire"
    /\ sem < concurrency
    /\ sem' = sem + 1
    /\ sessPc' = [sessPc EXCEPT ![loopIdx + 1] = "crawl"]
    /\ loopIdx' = loopIdx + 1
    /\ mainPc' = IF loopIdx + 1 < nTargets THEN "add" ELSE "wait"
    /\ UNCHANGED <<sessLog, nTargets, concurrency, wg, successCount, failCount,
                   captureVars, extractVars, processVars>>

\* The goroutine as it would be if it went on to processResources whatever
\* Crawl returned.
SessionCrawlIgnoreErr(i) ==
    /\ sessPc[i] = "crawl"
    /\ \E failed \in BOOLEAN :
         /\ sessPc' = [sessPc EXCEPT ![i] = "process"]
         /\ sessLog' = [sessLog EXCEPT ![i].crawl = IF failed THEN "err" ELSE "ok"]
    /\ UNCHANGED <<nTargets, concurrency, mainPc, loopIdx, sem, wg,
                   successCount, failCount, captureVars, extractVars,
                   processVars>>

\* spider.Crawl(targetURL) returns, with an error or without.
SessionCrawl(i) ==
    /\ sessPc[i] = "crawl"
    /\ \E failed \in BOOLEAN :
         /\ sessPc' = [sessPc EXCEPT ![i] = IF failed THEN "countFail" ELSE "process"]
         /\ sessLog' = [sessLog EXCEPT ![i].crawl = IF failed THEN "err" ELSE "ok"]
    /\ UNCHANGED <<nTargets, concurrency, mainPc, loopIdx, sem, wg,
                   successCount, failCount, captureVars, extractVars,
                   processVars>>

\* Crawl failed: failCount++ under mu, and return.
CountFail(i) ==
    /\ sessPc[i] = "countFail"
    /\ failCount' = failCount + 1
    /\ sessPc' = [sessPc EXCEPT ![i] = "release"]
    /\ sessLog' = [sessLog EXCEPT ![i].counted = @ + 1]
    /\ UNCHANGED <<nTargets, concurrency, mainPc, loopIdx, sem, wg,
                   successCount, captureVars, extractVars, processVars>>

\* processResources(spider, targetURL, outputDir) returns.
SessionProcess(i) ==
    /\ sessPc[i] = "process"
    /\ sessPc' = [sessPc EXCEPT ![i] = "countSuccess"]
    /\ sessLog' = [sessLog EXCEPT ![i].processed = @ + 1]
    /\ UNCHANGED <<nTargets, concurrency, mainPc, loopIdx, sem, wg,
                   successCount, failCount, captureVars, extractVars,
                   processVars>>

\* successCount++ under mu, and the end of the function.
CountSuccess(i) ==
    /\ sessPc[i] = "countSuccess"
    /\ successCount' = successCount + 1
    /\ sessPc' = [sessPc EXCEPT ![i] = "release"]
    /\ sessLog' = [sessLog EXCEPT ![i].counted = @ + 1]
    /\ UNCHANGED <<nTargets, concurrency, mainPc, loopIdx, sem, wg, failCount,
                   captureVars, extractVars, processVars>>

\* The goroutine as it would be if it did not receive from sem.
ReleaseLeak(i) ==
    /\ sessPc[i] = "release"
    /\ sessPc' = [sessPc EXCEPT ![i] = "wgDone"]
    /\ UNCHANGED <<sessLog, nTargets, concurrency, mainPc, loopIdx, sem, wg,
                   successCount, failCount, captureVars, extractVars,
                   processVars>>

\* The deferred <-sem.
Release(i) ==
    /\ sessPc[i] = "release"
    /\ sem > 0
    /\ sem' = sem - 1
    /\ sessPc' = [sessPc EXCEPT ![i] = "wgDone"]
    /\ UNCHANGED <<sessLog, nTargets, concurrency, mainPc, loopIdx, wg, successCount,
                   failCount, captureVars, extractVars, processVars>>

\* The deferred wg.Done(), which runs last.
WgDone(i) ==
    /\ sessPc[i] = "wgDone"
    /\ wg' = wg - 1
    /\ sessPc' = [sessPc EXCEPT ![i] = "exited"]
    /\ UNCHANGED <<sessLog, nTargets, concurrency, mainPc, loopIdx, sem, successCount,
                   failCount, captureVars, extractVars, processVars>>

\* wg.Wait() returns and the totals are logged.
WaitReturns ==
    /\ mainPc = "wait"
    /\ wg = 0
    /\ mainPc' = "returned"
    /\ UNCHANGED <<sessLog, nTargets, concurrency, loopIdx, sem, wg, sessPc,
                   successCount, failCount, captureVars, extractVars,
                   processVars>>

\* crawlMultipleURLs is called: main does so with any number of URLs but
\* one, and with the -concurrency given.
InitMulti ==
    /\ CaptureIdle
    /\ ExtractIdle
    /\ ProcessIdle
    /\ nTargets \in (0..MaxTargets) \ {1}
    /\ concurrency \in 0..MaxConcurrency
    /\ mainPc = IF nTargets = 0 THEN "wait" ELSE "add"
    /\ loopIdx = 0
    /\ sem = 0
    /\ wg = 0
    /\ sessPc = [i \in Targets |-> "idle"]
    /\ successCount = 0
    /\ failCount = 0
    /\ sessLog = [i \in Targets |-> [crawl |-> "none", processed |-> 0,
                                      counted |-> 0]]

NextMulti ==
    \/ WgAdd
    \/ Acquire
    \/ \E i \in Targets : SessionCrawl(i)
    \/ \E i \in Targets : CountFail(i)
    \/ \E i \in Targets : SessionProcess(i)
    \/ \E i \in Targets : CountSuccess(i)
    \/ \E i \in Targets : Release(i)
    \/ \E i \in Targets : WgDone(i)
    \/ WaitReturns

SpecMulti == InitMulti /\ [][NextMulti]_vars

\* One step of the goroutine of target i.
SessionStep(i) ==
    /\ i \in Targets
    /\ \/ SessionCrawl(i)
       \/ CountFail(i)
       \/ SessionProcess(i)
       \/ CountSuccess(i)
       \/ Release(i)
       \/ WgDone(i)

\* The main goroutine and every goroutine it starts keep running, and every
\* session ends: Crawl and processResources return.
FairSpecMulti ==
    /\ SpecMulti
    /\ WF_vars(WgAdd)
    /\ WF_vars(Acquire)
    /\ WF_vars(WaitReturns)
    /\ \A i \in 1..MaxTargets : WF_vars(SessionStep(i))

(***************************************************************************)
(* Properties of the capture pipeline                                      *)
(***************************************************************************)

\* The event of task t passed the dedup check.
Accepted(t) == pc[t] \notin {"idle", "check", "dropped"}

\* The goroutine of task t is between the dedup check and its store write.
InFlight(t) == pc[t] \in {"getbody", "fallback", "put"}

\* The Content of a Resource holds bytes.
Populated(r) == Len(r.Content.bytes) > 0

\* The store: s.resources.
Store == maps[StoreMap]

\* C1: at most one body retrieval is ever started for a URL, however many
\* events name it and however their handlers interleave.
C1_OneBodyRetrievalPerURL == \A u \in URLs : bodyCalls[u] <= 1

\* C2: once the store holds a Resource with populated Content for a URL, no
\* step replaces that entry by another Resource or changes its Content.
C2_StoredResourceNeverReplaced ==
    [][\A u \in DOMAIN Store :
         Populated(heap[Store[u]]) =>
           /\ u \in DOMAIN Store'
           /\ Store'[u] = Store[u]
           /\ heap'[Store[u]] = heap[Store[u]]]_vars

\* C3: when the caller has taken its snapshot with GetResources, every body
\* fetch that was started has settled: none is still to write to the store.
C3_SnapshotAfterAllSettled ==
    resources # NoMap => \A t \in Tasks : ~InFlight(t)

\* A store write by a capture goroutine.
StoreWrite == \E t \in Tasks : pc[t] = "put" /\ pc'[t] = "done"

\* C4: the mapping GetResources returned is independent of the store: a
\* store write after it leaves the returned mapping (its keys and the
\* Resource each maps to) as it was, and the caller's merge into the
\* returned mapping leaves the store as it was.
C4_SnapshotIndependent ==
    [][/\ (resources # NoMap /\ StoreWrite) =>
            /\ maps'[resources] = maps[resources]
            /\ \A u \in DOMAIN maps[resources] :
                 heap'[maps[resources][u]] = heap[maps[resources][u]]
       /\ (callerPc = "process" /\ callerPc' = "saved") =>
            Store' = Store]_vars

\* C4 happens: after the snapshot a goroutine stored a URL the snapshot does
\* not hold, and the caller merged a URL the store does not hold.
C4_Witness ==
    /\ callerPc = "saved"
    /\ \E u \in DOMAIN Store : u \notin DOMAIN snapKeys
    /\ \E u \in DOMAIN maps[resources] : u \notin DOMAIN Store

\* C5: the Content of an accepted event's Resource is the browser's body,
\* with no fallback fetch, when body retrieval succeeded; otherwise the
\* fallback was called exactly once, with the event's URL, and Content is
\* what it returned, which is empty when the fallback failed too.
C5_ContentFromBodyOrFallback ==
    \A t \in Tasks :
      pc[t] \in {"put", "done"} =>
        IF ~runRes[t].err
        THEN heap[t].Content = runRes[t].body /\ fetchLog[t] = <<>>
        ELSE /\ Len(fetchLog[t]) = 1
             /\ fetchLog[t][1][1] = evURL[t]
             /\ heap[t].Content = fetchLog[t][1][3]
             /\ fetchLog[t][1][2].kind # "resp" => Len(heap[t].Content.bytes) = 0

\* C5 happens: an event was stored whose body retrieval and fallback both
\* failed, and one whose body retrieval succeeded.
C5_Witness ==
    /\ \E t \in Tasks :
         pc[t] = "done" /\ runRes[t].err /\ fetchLog[t][1][2].kind = "getErr"
    /\ \E t \in Tasks : pc[t] = "done" /\ ~runRes[t].err

\* C6: every event that passed the dedup check ends in a store write: again
\* and again (and, a finished goroutine staying finished, from some point
\* on) every accepted event's goroutine has done its Put.
C6_AcceptedEventuallyPut ==
    []<>(\A t \in Tasks : Accepted(t) => pc[t] = "done")

\* C6 happens: an event whose body retrieval and fallback both failed and
\* an event that only the fallback served have both been stored.
C6_Witness ==
    /\ \E t \in Tasks :
         pc[t] = "done" /\ runRes[t].err /\ fetchLog[t][1][2].kind = "readErr"
    /\ \E t \in Tasks :
         pc[t] = "done" /\ runRes[t].err /\ fetchLog[t][1][2].kind = "resp"

\* C7: once the crawl context is done no handler passes the dedup check and
\* starts a body retrieval.
C7_NoAcceptAfterDeadline ==
    [][ctxDone => \A t \in Tasks : pc[t] = "check" => pc'[t] # "getbody"]_vars

\* C8: downloadResource returns nil exactly when the GET or the read of the
\* body failed; for any response, whatever its status, it returns the body.
C8_NilOnlyOnTransportFailure ==
    \A t \in Tasks : \A i \in 1..Len(fetchLog[t]) :
      LET o == fetchLog[t][i][2]
          r == fetchLog[t][i][3]
      IN /\ r.isNil <=> o.kind \in {"getErr", "readErr"}
         /\ o.kind = "resp" => r = Bytes(o.body)

\* C8 happens: a response that is not 2xx was read and its body returned,
\* and an empty body was returned as an empty slice that is not nil.
C8_Witness ==
    /\ \E t \in Tasks : \E i \in 1..Len(fetchLog[t]) :
         /\ fetchLog[t][i][2].kind = "resp"
         /\ fetchLog[t][i][2].status = 404
         /\ fetchLog[t][i][3] = Bytes("b2")
    /\ \E t \in Tasks : \E i \in 1..Len(fetchLog[t]) :
         /\ fetchLog[t][i][2] = Response(200, "")
         /\ fetchLog[t][i][3] = Bytes("")

\* C24: an event whose URL has an entry in the store when handleResponse
\* looks it up does nothing more: its handler returns at once, leaving the
\* store, the count of body retrievals, the fallback GETs and every Resource
\* as they are, and nothing is ever done for that event afterwards (no body
\* retrieval, no fallback GET, no Resource built, no store entry of its own).
C24_DuplicateEventDoesNothing ==
    /\ [][\A t \in Tasks :
            /\ pc[t] = "check" /\ evURL[t] \in DOMAIN Store /\ pc'[t] # "check" =>
                 /\ pc'[t] = "dropped"
                 /\ Store' = Store
                 /\ bodyCalls' = bodyCalls
                 /\ fetchLog' = fetchLog
                 /\ runRes' = runRes
                 /\ heap' = heap
            /\ pc[t] = "dropped" => pc'[t] = "dropped"]_vars
    /\ [](\A t \in Tasks :
            pc[t] = "dropped" =>
              /\ evURL[t] \in DOMAIN Store
              /\ heap[t] = NoResource
              /\ fetchLog[t] = <<>>
              /\ runRes[t] = [err |-> FALSE, body |-> NilBytes]
              /\ \A u \in DOMAIN Store : Store[u] # t)

\* C24 happens: the second event for a URL found the entry the first one
\* had stored and was dropped; the body was retrieved once.
C24_Witness ==
    /\ pc[1] = "done"
    /\ pc[2] = "dropped"
    /\ evURL[1] = evURL[2]
    /\ bodyCalls[evURL[2]] = 1
    /\ Store[evURL[2]] = 1

C23_StoreLockDiscipline ==
    /\ [](/\ Cardinality(mu) <= 1
          /\ mu \subseteq Tasks \cup {CallerTask}
          /\ \A t \in Tasks :
                /\ t \in mu <=> pc[t] \in {"checkLocked", "putLocked"}
                /\ pc[t] \in {"getbody", "fallback"} => t \notin mu
          /\ CallerTask \in mu <=> callerPc = "copyLocked")
    /\ [][/\ Store' # Store =>
                \E t \in mu \cap Tasks :
                  /\ pc[t] = "putLocked"
                  /\ Store' = MapPut(Store, heap[t].URL, t)
          /\ \A t \in Tasks :
                pc[t] # pc'[t] /\ pc'[t] \in {"dropped", "getbody"} =>
                  /\ mu = {t}
                  /\ pc'[t] = "dropped" <=> evURL[t] \in DOMAIN Store
          /\ snapKeys' # snapKeys \/ resources' # resources =>
                mu = {CallerTask} /\ snapKeys' = Store
          /\ \A t \in Tasks :
                pc[t] \in {"getbody", "fallback"} /\ pc'[t] # pc[t] =>
                  mu' = mu /\ t \notin mu]_vars

\* C23 happens: while one goroutine is in its fallback GET, the handler of
\* another event holds the mutex for its lookup.
C23_Witness ==
    /\ pc[1] = "fallback"
    /\ pc[2] = "checkLocked"
    /\ mu = {2}

(***************************************************************************)
(* Properties of ExtractFromResource, under SpecExtract                    *)
(***************************************************************************)

\* The MIME types that contain neither "javascript" nor "css".
IneligibleMimeTypes ==
    {m \in MimeTypes : ~Contains(m, "javascript") /\ ~Contains(m, "css")}

\* The pairs of a resource URL and a reference that buildSourceMapURL does
\* not resolve into a URL.
Unresolvable ==
    {p \in ResourceURLs \X (GoodRefs \cup BadRefs) :
        buildSourceMapURL(p[1], p[2]).err # ""}

\* C9: ExtractFromResource on a resource whose MimeType contains neither
\* "javascript" nor "css" returns an empty result with no error and makes
\* no source-map download, whatever the content of the resource is: the run
\* goes from the eligibility test straight to its return.
C9_IneligibleYieldsNothing ==
    exRes.MimeType \in IneligibleMimeTypes =>
        /\ exPc \in {"eligible", "Ineligible"}
        /\ exOut.result = <<>>
        /\ exOut.err = ""
        /\ exOut.gets = <<>>

\* C9 happens: the call has returned for an image whose content does carry
\* a well-formed reference, and for a MIME type that differs from an
\* eligible one by case only.
C9_Witness ==
    /\ exPc = "Ineligible"
    /\ exRes.MimeType \in {"image/png", "TEXT/CSS"}
    /\ exOut.expect \in GoodRefs
    /\ exOut.result = <<>> /\ exOut.err = "" /\ exOut.gets = <<>>

\* C10, as stated: for an eligible resource whose content has no
\* recognizable reference, or whose reference cannot be resolved into a
\* URL, ExtractFromResource returns an empty result with no error and makes
\* no download.
C10_BadReferenceNeverAnError ==
    /\ exRes.MimeType \notin IneligibleMimeTypes
    /\ \/ exOut.expect = ""
       \/ <<exRes.URL, exOut.expect>> \in Unresolvable
    => /\ exOut.result = <<>>
       /\ exOut.err = ""
       /\ exOut.gets = <<>>

\* C10, amended: for an eligible resource, a content with no recognizable
\* reference gives an empty result, no error and no download; a reference
\* that cannot be resolved into a URL gives an empty result and no download
\* too, but the call returns the error "failed to build source map URL".
C10_AbsentSilentUnresolvableError ==
    exRes.MimeType \notin IneligibleMimeTypes =>
        /\ exOut.expect = "" =>
             /\ exPc \in {"eligible", "find", "NoReference"}
             /\ exOut.result = <<>>
             /\ exOut.err = ""
             /\ exOut.gets = <<>>
        /\ <<exRes.URL, exOut.expect>> \in Unresolvable =>
             /\ exPc \in {"eligible", "find", "build", "ResolveFailed"}
             /\ exOut.result = <<>>
             /\ exOut.gets = <<>>
             /\ exOut.err =
                  IF exPc = "ResolveFailed"
                  THEN "failed to build source map URL" ELSE ""

\* C10 happens: the call has returned an error for a script whose reference
\* is a template placeholder left in the bundle, without a download.
C10_Witness ==
    /\ exPc = "ResolveFailed"
    /\ exRes.MimeType = "application/javascript"
    /\ exRes.URL = "https://example.com/static/app.js"
    /\ exOut.ref = "<%= url %>"
    /\ exOut.err = "failed to build source map URL"
    /\ exOut.result = <<>> /\ exOut.gets = <<>>

\* The bodies that do not decode as a source map: text that is not JSON,
\* and a document whose sources is not a list.
Undecodable == {Malformed, DocWrongKind}

\* Whether the download of the source map failed: the transport failed, or
\* the status is not 200.
DownloadFails(o) == o.kind # "resp" \/ o.status # 200

\* C11: when the download of the source map fails (transport error or a
\* status other than 200), ExtractFromResource stops with an empty result
\* and no error and parseSourceMap is never called; when the bytes
\* downloaded do not decode as a source map, it stops with an empty result
\* and no error as well. No resource is synthesized in either case.
C11_DownloadOrDecodeFailureIsSilent ==
    exOut.fetched # <<>> =>
        LET o == exOut.fetched[1]
        IN /\ Len(exOut.fetched) = 1
           /\ DownloadFails(o) =>
                /\ exPc = "DownloadFailed"
                /\ exOut.parses = 0
                /\ exOut.result = <<>>
                /\ exOut.err = ""
           /\ ~DownloadFails(o) /\ o.body \in Undecodable =>
                /\ exPc \in {"parse", "ParseFailed"}
                /\ exOut.result = <<>>
                /\ exOut.err = ""

\* C11 happens: the server answered 404 with a body that is a well-formed
\* source map, and the run has ended without parsing it.
C11_Witness ==
    /\ exPc = "DownloadFailed"
    /\ exOut.fetched = <<MapResponse(404, DocShort)>>
    /\ exOut.parses = 0
    /\ exOut.result = <<>> /\ exOut.err = ""

\* The stages of ExtractFromResource in the order of its code, and for each
\* stage the return that ends the run there.
StageOrder == <<"eligible", "find", "build", "download", "parse", "extract">>

StageReturn ==
    <<"Ineligible", "NoReference", "ResolveFailed", "DownloadFailed",
      "ParseFailed", "Materialized">>

StageOf(p) == CHOOSE k \in 1..6 : StageOrder[k] = p \/ StageReturn[k] = p

\* C22, as stated: a run of ExtractFromResource is in one of the stages or
\* has ended in one of the outcomes Ineligible, NoReference, DownloadFailed,
\* ParseFailed and Materialized.
C22_FiveOutcomes ==
    exPc \in {StageOrder[k] : k \in 1..6}
              \cup {"Ineligible", "NoReference", "DownloadFailed",
                    "ParseFailed", "Materialized"}

\* C22, amended: a run of ExtractFromResource goes through eligibility
\* check, reference detection, URL resolution, download, parse and
\* materialization in this order, one stage after the other, and ends, once
\* and for good, in one of six outcomes: the five of the statement and
\* ResolveFailed, where the reference did not resolve into a URL. A stage is
\* entered only if every stage before it succeeded, each failure ends the
\* run in the outcome of its stage, and resources are synthesized in
\* Materialized only.
C22_StagesInOrderSixOutcomes ==
    /\ [](/\ exPc \in {StageOrder[k] : k \in 1..6}
                       \cup {StageReturn[k] : k \in 1..6}
          /\ exOut.result # <<>> => exPc = "Materialized"
          /\ StageOf(exPc) > 1 => exRes.MimeType \notin IneligibleMimeTypes
          /\ StageOf(exPc) > 2 => exOut.expect # "" /\ exOut.ref = exOut.expect
          /\ StageOf(exPc) > 3 =>
                /\ <<exRes.URL, exOut.expect>> \notin Unresolvable
                /\ exOut.fullURL # ""
          /\ StageOf(exPc) > 4 =>
                /\ Len(exOut.fetched) = 1
                /\ ~DownloadFails(exOut.fetched[1])
          /\ StageOf(exPc) > 5 =>
                exOut.parses = 1 /\ exOut.content \notin Undecodable
          /\ exPc = "Ineligible" => exRes.MimeType \in IneligibleMimeTypes
          /\ exPc = "NoReference" => exOut.expect = ""
          /\ exPc = "ResolveFailed" =>
                <<exRes.URL, exOut.expect>> \in Unresolvable
          /\ exPc = "DownloadFailed" =>
                Len(exOut.fetched) = 1 /\ DownloadFails(exOut.fetched[1])
          /\ exPc = "ParseFailed" =>
                exOut.parses = 1 /\ exOut.content \in Undecodable)
    /\ [][/\ exPc \in {StageOrder[k] : k \in 1..6}
           /\ \/ exPc' = StageReturn[StageOf(exPc)]
              \/ /\ StageOf(exPc) < 6
                 /\ exPc' = StageOrder[StageOf(exPc) + 1]]_vars
    /\ <>[](exPc \in {StageReturn[k] : k \in 1..6})

\* C22 happens: a run has gone through the six stages and ended in
\* Materialized with resources synthesized from the map it downloaded and
\* parsed once.
C22_Witness ==
    /\ exPc = "Materialized"
    /\ exOut.expect \in GoodRefs
    /\ Len(exOut.gets) = 1
    /\ exOut.fetched = <<MapResponse(200, DocRooted)>>
    /\ exOut.parses = 1
    /\ exOut.result # <<>>

(***************************************************************************)
(* Properties of processResources, under SpecProcess                       *)
(***************************************************************************)

\* The source files the calls of ExtractFromResource have returned.
Produced == UNION {{r.files[k] : k \in 1..Len(r.files)} :
                     r \in {returned[u] : u \in DOMAIN returned}}

ProducedURLs == {f.URL : f \in Produced}

\* C12: processResources calls ExtractFromResource with every resource of
\* the snapshot exactly once, whatever the calls before it returned (an
\* error, nothing after a failed download or a failed parse), and the source
\* files a call has returned stay in sourceMapResources.
C12_FailureIsolation ==
    /\ \A u \in DOMAIN snapshot :
         calls[u] = IF prPc = "extract" /\ u \in todo THEN 0 ELSE 1
    /\ DOMAIN returned = (DOMAIN snapshot) \ todo
    /\ DOMAIN sourceMapResources = ProducedURLs
    /\ \A x \in DOMAIN sourceMapResources : sourceMapResources[x] \in Produced

\* C12 happens: the loop is over; one call returned an error, one ended
\* with a failed download, and the files of a third are there.
C12_Witness ==
    /\ prPc = "merged"
    /\ \A u \in DOMAIN snapshot : calls[u] = 1
    /\ \E u \in DOMAIN returned : returned[u].err # ""
    /\ \E u \in DOMAIN returned :
         /\ snapshot[u].URL = "https://example.com/static/vendor.js"
         /\ returned[u] = [files |-> <<>>, err |-> ""]
    /\ \E u \in DOMAIN returned :
         /\ returned[u].files # <<>>
         /\ returned[u].files[1].URL \in DOMAIN sourceMapResources

\* C20: after the merge, the keys of the final mapping are the captured
\* URLs and the URLs extraction produced; every URL extraction produced maps
\* to one of the source files produced for it, a captured resource of that
\* URL being overridden; of the source files several source maps produced
\* for one URL, one is kept.
C20_MergeLastWriteWins ==
    prPc \in {"merged", "saveFailed", "reported"} =>
        /\ DOMAIN prResources = (DOMAIN snapshot) \cup ProducedURLs
        /\ \A x \in ProducedURLs :
             /\ prResources[x] \in Produced
             /\ prResources[x].URL = x
        /\ \A x \in (DOMAIN snapshot) \ ProducedURLs :
             prResources[x] = snapshot[x]

\* C20 happens: two source maps each produced a source file for a URL that
\* a response was captured from as well; the final mapping has one of the
\* two and not the captured resource.
C20_Witness ==
    /\ prPc = "merged"
    /\ \E x \in (DOMAIN snapshot) \cap ProducedURLs :
         /\ Cardinality({f \in Produced : f.URL = x}) = 2
         /\ prResources[x] # snapshot[x]
         /\ prResources[x] \in Produced

\* C27: processResources makes one pass over the snapshot and does not
\* recurse: every call of ExtractFromResource is the first and only call
\* for a URL of the snapshot and gets the resource captured for it; the
\* mapping the loop ranges over stays the snapshot until the loop is over,
\* so no source file is ever passed to the extractor; no call is made after
\* the merge; and the merge leaves every captured resource whose URL no
\* source file has as it was.
C27_SinglePassNoRecursion ==
    /\ [](/\ DOMAIN calls = DOMAIN snapshot
          /\ todo \subseteq DOMAIN snapshot
          /\ \A u \in DOMAIN calls : calls[u] <= 1
          /\ prPc = "extract" => prResources = snapshot
          /\ prPc # "extract" =>
                /\ todo = {}
                /\ \A x \in (DOMAIN snapshot) \ DOMAIN sourceMapResources :
                      x \in DOMAIN prResources /\ prResources[x] = snapshot[x]
                /\ \A x \in (DOMAIN prResources) \ DOMAIN snapshot :
                      x \in DOMAIN sourceMapResources)
    /\ [][/\ calls' # calls =>
                /\ prPc = "extract"
                /\ \E u \in DOMAIN snapshot :
                      /\ prResources[u] = snapshot[u]
                      /\ calls[u] = 0
                      /\ calls' = [calls EXCEPT ![u] = 1]
          /\ snapshot' = snapshot
          /\ prPc # "extract" => calls' = calls /\ returned' = returned]_vars

\* C27 happens: the mapping was saved and reported with a source file under
\* a URL that was not captured and that no call was made for, next to an
\* image that is as it was captured.
C27_Witness ==
    /\ prPc = "reported"
    /\ \E x \in DOMAIN prResources :
         /\ x \notin DOMAIN snapshot
         /\ x \notin DOMAIN calls
         /\ x \in DOMAIN sourceMapResources
         /\ prResources[x] = sourceMapResources[x]
    /\ "https://example.com/logo.png" \in DOMAIN snapshot
    /\ prResources["https://example.com/logo.png"]
         = snapshot["https://example.com/logo.png"]

(***************************************************************************)
(* Properties of the materialization, under SpecExtract                    *)
(***************************************************************************)

\* The indices of Sources (from 1) extractSourceFiles is to materialize:
\* those that SourcesContent has a non-empty entry for.
MaterializedIndices(sm) ==
    {i \in 1..Len(sm.Sources) :
        i <= Len(sm.SourcesContent) /\ sm.SourcesContent[i] # ""}

\* The elements of a set of numbers in increasing order.
Ascending(S) ==
    [k \in 1..Cardinality(S) |->
       CHOOSE i \in S : Cardinality({j \in S : j < i}) = k - 1]

\* The index of Sources the k-th resource of the result stands for.
SourceIndex(k) == Ascending(MaterializedIndices(exOut.doc))[k]

\* The cleaned path of the k-th resource of the result.
CleanPathOf(k) ==
    cleanSourcePath(exOut.doc.Sources[SourceIndex(k)], exOut.doc.SourceRoot)

\* C13: for a parsed source map, extractSourceFiles synthesizes one
\* resource for exactly the indices i of Sources with i < len(SourcesContent)
\* and SourcesContent[i] not empty, in increasing order of i, and skips the
\* other indices without an error.
C13_MaterializationFilter ==
    exPc = "Materialized" =>
        /\ exOut.err = ""
        /\ Len(exOut.result) = Cardinality(MaterializedIndices(exOut.doc))
        /\ \A k \in 1..Len(exOut.result) :
             /\ exOut.result[k].Content =
                  Bytes(exOut.doc.SourcesContent[SourceIndex(k)])
             /\ HasSuffix(exOut.result[k].URL, "/" \o CleanPathOf(k))

\* C13 happens: a map of 3 sources and 1 content has given 1 resource.
C13_Witness ==
    /\ exPc = "Materialized"
    /\ Len(exOut.doc.Sources) = 3
    /\ Len(exOut.doc.SourcesContent) = 1
    /\ Len(exOut.result) = 1
    /\ exOut.result[1].Content = Bytes("x")

\* C14, as stated: the source webpack:///./src/App.js with an empty
\* sourceRoot, in the map https://example.com/static/app.js.map, gives the
\* resource URL https://example.com/src/App.js.
C14_WebpackPrefixStripped ==
    /\ exPc = "Materialized"
    /\ exOut.fullURL = "https://example.com/static/app.js.map"
    /\ exOut.doc.Sources # <<>>
    /\ exOut.doc.Sources[1] = "webpack:///./src/App.js"
    /\ exOut.doc.SourceRoot = ""
    => exOut.result[1].URL = "https://example.com/src/App.js"

\* C15: every synthesized resource has the URL <scheme>://<host>/<cleaned
\* path> with the scheme and the host of the URL of the map document, the
\* status 200, the Content SourcesContent[i] and the header that marks it as
\* coming from a source map.
C15_SynthesizedUnderMapOrigin ==
    exPc = "Materialized" =>
        \A m \in {urlParse(exOut.fullURL)} :
          \A k \in 1..Len(exOut.result) :
            \A p \in {urlParse(exOut.result[k].URL)} :
              /\ p.err = ""
              /\ p.Scheme = m.Scheme
              /\ p.Host = m.Host
              /\ exOut.result[k].URL =
                   m.Scheme \o "://" \o m.Host \o "/" \o CleanPathOf(k)
              /\ exOut.result[k].StatusCode = 200
              /\ exOut.result[k].Content =
                   Bytes(exOut.doc.SourcesContent[SourceIndex(k)])
              /\ exOut.result[k].Headers = [h \in {"X-Source"} |-> "SourceMap"]

\* C15 happens: the map is on another host than the resource, and a source
\* that is a URL of a third host has been put under the host of the map.
C15_Witness ==
    /\ exPc = "Materialized"
    /\ exRes.URL = "https://example.com/static/app.js"
    /\ exOut.fullURL = "https://cdn.example.com/app.js.map"
    /\ \E k \in 1..Len(exOut.result) :
         /\ exOut.doc.Sources[SourceIndex(k)] = "http://evil.example/x.js"
         /\ exOut.result[k].URL =
              "https://cdn.example.com/http://evil.example/x.js"

\* C16, as stated: a path whose extension is one the table lists gets the
\* MIME type of the table, and a path whose extension is not listed or is
\* missing gets text/plain.
C16_MimeTableExact ==
    exPc = "Materialized" =>
        \A k \in 1..Len(exOut.result) :
          exOut.result[k].MimeType =
            IF Ext(CleanPathOf(k)) \in DOMAIN MimeTable
            THEN MimeTable[Ext(CleanPathOf(k))] ELSE "text/plain"

\* C16, amended: the extension is looked up in lower case: a path whose
\* extension, put in lower case, is one the table lists gets the MIME type
\* of the table, and any other path gets text/plain.
C16_MimeTableLowerCased ==
    exPc = "Materialized" =>
        \A k \in 1..Len(exOut.result) :
          \A ext \in {ToLower(Ext(CleanPathOf(k)))} :
            exOut.result[k].MimeType =
              IF ext \in DOMAIN MimeTable THEN MimeTable[ext] ELSE "text/plain"

\* C16 happens: the sources of every listed extension, of .map, of no
\* extension and of .JS have been materialized.
C16_Witness ==
    /\ exPc = "Materialized"
    /\ {Ext(CleanPathOf(k)) : k \in 1..Len(exOut.result)} =
         (DOMAIN MimeTable) \cup {".map", "", ".JS"}
    /\ \E k \in 1..Len(exOut.result) :
         /\ Ext(CleanPathOf(k)) = ".JS"
         /\ exOut.result[k].MimeType = "application/javascript"

(***************************************************************************)
(* Properties of the URL resolution, under SpecExtract                     *)
(***************************************************************************)

\* The run has a full URL: buildSourceMapURL has returned without an error.
HasFullURL ==
    exPc \in {"download", "DownloadFailed", "parse", "ParseFailed", "extract",
              "Materialized"}

\* The references buildSourceMapURL takes as complete URLs.
Absolute(ref) == HasPrefix(ref, "http://") \/ HasPrefix(ref, "https://")

\* C17: when the reference starts with http:// or https://, the URL of the
\* map is that very value, whatever the URL of the resource is, one that
\* cannot be parsed included.
C17_AbsolutePassthrough ==
    exRes.MimeType \notin IneligibleMimeTypes /\ Absolute(exOut.expect) =>
        /\ exPc # "ResolveFailed"
        /\ HasFullURL => exOut.fullURL = exOut.expect
        /\ \A i \in 1..Len(exOut.gets) : exOut.gets[i] = exOut.expect

\* C17 happens: the URL of the resource cannot be parsed, and the download
\* has been made from the reference.
C17_Witness ==
    /\ exRes.URL = ":bad"
    /\ exOut.ref = "https://cdn.example.com/app.js.map"
    /\ exOut.gets = <<"https://cdn.example.com/app.js.map">>

\* The scheme and host of the resource URLs that can be parsed.
Origin ==
    [u \in {"https://example.com/static/app.js",
            "http://cdn.example.com/a/b/app.css?v=2"} |->
       IF u = "https://example.com/static/app.js"
       THEN [scheme |-> "https", host |-> "example.com", dir |-> "/static/",
             up |-> "/"]
       ELSE [scheme |-> "http", host |-> "cdn.example.com", dir |-> "/a/b/",
             up |-> "/a/"]]

\* C18, as stated: a reference that is not absolute is resolved against the
\* URL of the resource: a plain relative path takes the place of the last
\* segment, .. goes up one directory, a leading / replaces the whole path,
\* and the scheme and the host of the resource are always kept.
C18_RelativeKeepsSchemeAndHost ==
    /\ HasFullURL
    /\ ~Absolute(exOut.expect)
    /\ exRes.URL \in DOMAIN Origin
    => \A o \in {Origin[exRes.URL]} :
         /\ HasPrefix(exOut.fullURL, o.scheme \o "://" \o o.host \o "/")
         /\ exOut.expect = "app.js.map" =>
              exOut.fullURL = o.scheme \o "://" \o o.host \o o.dir \o "app.js.map"

\* C18, amended: a reference that is not absolute is resolved against the
\* URL of the resource. A plain relative path takes the place of the last
\* segment, .. goes up one directory and a leading / replaces the whole
\* path, and these keep the scheme and the host of the resource. A reference
\* that starts with // names a host: it keeps the scheme of the resource
\* only, and its own host and path.
C18_RelativeResolution ==
    /\ HasFullURL
    /\ ~Absolute(exOut.expect)
    /\ exRes.URL \in DOMAIN Origin
    => \A o \in {Origin[exRes.URL]} :
         exOut.fullURL =
           CASE exOut.expect = "app.js.map" ->
                  o.scheme \o "://" \o o.host \o o.dir \o "app.js.map"
             [] exOut.expect = "../maps/app.js.map" ->
                  o.scheme \o "://" \o o.host \o o.up \o "maps/app.js.map"
             [] exOut.expect = "/m/a.map" ->
                  o.scheme \o "://" \o o.host \o "/m/a.map"
             [] exOut.expect = "//maps.example.net/m/a.map" ->
                  o.scheme \o "://maps.example.net/m/a.map"

\* C18 happens: app.js.map has been resolved against
\* https://example.com/static/app.js.
C18_Witness ==
    /\ HasFullURL
    /\ exRes.URL = "https://example.com/static/app.js"
    /\ exOut.ref = "app.js.map"
    /\ exOut.fullURL = "https://example.com/static/app.js.map"

(***************************************************************************)
(* Properties of crawlMultipleURLs, under SpecMulti                        *)
(***************************************************************************)

\* The sessions that run: their goroutine has its slot of sem.
Running == {i \in Targets : sessPc[i] \in HoldsSlot}

\* C19: in batch mode the number of sessions that run at the same time,
\* between the send on sem and the receive from it, is never more than the
\* concurrency configured, for every number of targets.
C19_SessionsBounded ==
    /\ Cardinality(Running) <= concurrency
    /\ Cardinality(Running) = sem

\* C19 happens: with a concurrency of 2 and three targets, two sessions run
\* and the loop waits for a slot for the third.
C19_Witness ==
    /\ concurrency = 2
    /\ nTargets = 3
    /\ Cardinality(Running) = 2
    /\ mainPc = "acquire"
    /\ sessPc[3] = "idle"

\* C21: a Crawl that returns an error aborts its own target only:
\* processResources is never called for that target, and in batch mode every
\* other target is crawled all the same and, when its Crawl returned nil,
\* processed once.
C21_FatalFailureAbortsOneTarget ==
    \A i \in Targets :
      /\ sessLog[i].crawl = "err" =>
           /\ sessLog[i].processed = 0
           /\ sessPc[i] \notin {"process", "countSuccess"}
      /\ sessLog[i].crawl = "ok" /\ sessPc[i] # "process" =>
           sessLog[i].processed = 1
      /\ mainPc = "returned" => sessLog[i].crawl # "none"

\* C21 happens: the batch is over; the Crawl of the first target failed and
\* it was not processed, the second was crawled after it and processed.
C21_Witness ==
    /\ mainPc = "returned"
    /\ nTargets = 2
    /\ concurrency = 1
    /\ sessLog[1] = [crawl |-> "err", processed |-> 0, counted |-> 1]
    /\ sessLog[2] = [crawl |-> "ok", processed |-> 1, counted |-> 1]

\* C26: with a concurrency of 1 or more, crawlMultipleURLs returns for
\* every list of targets, every session ending; and when it returns every
\* goroutine has exited, every target has been counted once, and
\* successCount + failCount is the number of targets.
C26_BatchReturnsAllCounted ==
    /\ (concurrency >= 1) ~> (mainPc = "returned")
    /\ [](mainPc = "returned" =>
            /\ successCount + failCount = nTargets
            /\ successCount =
                 Cardinality({i \in Targets : sessLog[i].crawl = "ok"})
            /\ \A i \in Targets :
                 sessLog[i].counted = 1 /\ sessPc[i] = "exited")

\* C26 happens: three targets have gone through one slot, two of them
\* crawled and one failed, and crawlMultipleURLs has returned.
C26_Witness ==
    /\ mainPc = "returned"
    /\ nTargets = 3
    /\ concurrency = 1
    /\ successCount = 2
    /\ failCount = 1

====
